---- MODULE Spec2Model ----
\* Execution-and-reconciliation core of the code-review agent:
\*   - ModelRouter / RoutedAgent          (src/app/utils/model_router.py)
\*   - ModelFallbackAgent                 (src/app/agent.py)
\*   - the bounded stream consumers       (src/scripts/call_agent.py,
\*                                         src/webhook_service/agent_client.py)
\*   - the stream extractor / reconciler  (src/app/utils/stream_extractor.py)
\* Python strings are sequences of one-character strings, so that substring
\* tests, case folding, slicing and len() are computed as the code computes them.
EXTENDS Integers, Sequences, FiniteSets, TLC

VARIABLES
    router,         \* ModelRouter fields of the RoutedAgent
    agent_model,    \* RoutedAgent.model
    session,        \* invocation_context.session.state
    r_pc,           \* position of the executor invocation
    r_kind,         \* which executor is running: "routed" | "fallback_agent"
    r_has_session,  \* hasattr(invocation_context, "session") and hasattr(.., "state")
    r_calls,        \* endpoints the producer was invoked on, in this invocation
    r_err1,         \* exception of the first attempt
    r_err2,         \* exception of the second attempt
    r_raised,       \* exception that left _run_async_impl
    r_out,          \* events forwarded downstream by ModelFallbackAgent
    r_inv,          \* number of invocations started
    r_base,         \* len(model_fallbacks) and used_fallback when the invocation started
    c_kind,         \* which consumer runs: "call_agent" | "review_pr"
    c_pc,           \* position of the caller
    c_attempt,      \* `attempt` of call_agent_with_retry's for loop
    c_delay,        \* `delay` of call_agent_with_retry
    c_now,          \* time.time() - stream_start_time, in seconds
    c_wait_until,   \* when streaming_complete.wait(timeout=5.0) gives up
    c_buf,          \* response_chunks
    c_count,        \* chunk_count[0]
    c_complete,     \* streaming_complete.is_set()
    c_error,        \* stream_error[0]
    c_workers,      \* the stream_worker threads started so far
    c_result,       \* which return statement ended the call
    c_value,        \* the dict review_pr returned
    c_raised,       \* exception raised to the caller
    c_log,          \* how each attempt ended
    a_pc,           \* position of extract_text_and_state
    a_chunks,       \* `chunks`, the list of raw events
    a_i,            \* position of `chunk` in chunks (1-based)
    a_parts,        \* all_text_parts
    a_merged,       \* merged_state
    a_text,         \* combined_text as returned
    a_raised,       \* exception that left extract_text_and_state
    q_pc,           \* position of the coerce_review_output call
    q_text,         \* its argument combined_text
    q_input_state,  \* its argument merged_state, as it was when passed
    q_state,        \* the merged_state object (written in place by the call)
    q_result,       \* the dict returned
    q_raised,       \* exception that left coerce_review_output
    m_router,       \* a ModelRouter object used on its own
    m_calls,        \* number of record_fallback() calls made on it
    m_first,        \* its fields after the first record_fallback() call
    m_asked         \* the errors passed to should_fallback() and the answers

routerVars == <<router, agent_model, session, r_pc, r_kind, r_has_session,
                r_calls, r_err1, r_err2, r_raised, r_out, r_inv, r_base>>

consumerVars == <<c_kind, c_pc, c_attempt, c_delay, c_now, c_wait_until, c_buf, c_count,
                  c_complete, c_error, c_workers, c_result, c_value, c_raised, c_log>>

aggregateVars == <<a_pc, a_chunks, a_i, a_parts, a_merged, a_text, a_raised>>

reconcileVars == <<q_pc, q_text, q_input_state, q_state, q_result, q_raised>>

objectVars == <<m_router, m_calls, m_first, m_asked>>

vars == <<routerVars, consumerVars, aggregateVars, reconcileVars, objectVars>>

notRouterVars == <<consumerVars, aggregateVars, reconcileVars, objectVars>>
notConsumerVars == <<routerVars, aggregateVars, reconcileVars, objectVars>>
notAggregateVars == <<routerVars, consumerVars, reconcileVars, objectVars>>
notReconcileVars == <<routerVars, consumerVars, aggregateVars, objectVars>>
notObjectVars == <<routerVars, consumerVars, aggregateVars, reconcileVars>>

-----------------------------------------------------------------------------
\* Bounds of the model

MaxInvocations == 2
MaxEvents == 2

-----------------------------------------------------------------------------
\* Python string helpers

\* `t in s`
Contains(s, t) ==
    \E i \in 0..(Len(s) - Len(t)) : SubSeq(s, i + 1, i + Len(t)) = t

UpperMap ==
    ("a" :> "A") @@ ("b" :> "B") @@ ("c" :> "C") @@ ("d" :> "D") @@ ("e" :> "E") @@
    ("f" :> "F") @@ ("g" :> "G") @@ ("h" :> "H") @@ ("i" :> "I") @@ ("j" :> "J") @@
    ("k" :> "K") @@ ("l" :> "L") @@ ("m" :> "M") @@ ("n" :> "N") @@ ("o" :> "O") @@
    ("p" :> "P") @@ ("q" :> "Q") @@ ("r" :> "R") @@ ("s" :> "S") @@ ("t" :> "T") @@
    ("u" :> "U") @@ ("v" :> "V") @@ ("w" :> "W") @@ ("x" :> "X") @@ ("y" :> "Y") @@
    ("z" :> "Z")

\* str.upper()
Upper(s) == [i \in DOMAIN s |-> IF s[i] \in DOMAIN UpperMap THEN UpperMap[s[i]] ELSE s[i]]

\* str.lower()
Lower(s) ==
    [i \in DOMAIN s |->
        IF \E c \in DOMAIN UpperMap : UpperMap[c] = s[i]
        THEN CHOOSE c \in DOMAIN UpperMap : UpperMap[c] = s[i]
        ELSE s[i]]

-----------------------------------------------------------------------------
\* Python values of events, state and results (stream_extractor.py works on
\* `Any`): one record shape for every value.
\*   k: "none" | "str" | "num" | "bool" | "dict" | "list" | "obj" | "raise"
\*   s: characters of a str (type name of a raised exception)
\*   d: items of a dict, attributes of an object (keys are character sequences)
\*   l: elements of a list
\*   n: value of a number, 1/0 for True/False

PyVal(k, s, d, l, n) == [k |-> k, s |-> s, d |-> d, l |-> l, n |-> n]

None == PyVal("none", <<>>, <<>>, <<>>, 0)
Str(s) == PyVal("str", s, <<>>, <<>>, 0)
Num(n) == PyVal("num", <<>>, <<>>, <<>>, n)
Bool(b) == PyVal("bool", <<>>, <<>>, <<>>, IF b THEN 1 ELSE 0)
Dict(d) == PyVal("dict", <<>>, d, <<>>, 0)
List(l) == PyVal("list", <<>>, <<>>, l, 0)
Obj(d) == PyVal("obj", <<>>, d, <<>>, 0)
Raised(t) == PyVal("raise", t, <<>>, <<>>, 0)

EmptyDict == Dict(<<>>)
EmptyList == List(<<>>)

T_TypeError == <<"T","y","p","e","E","r","r","o","r">>
T_AttributeError == <<"A","t","t","r","i","b","u","t","e","E","r","r","o","r">>
T_KeyError == <<"K","e","y","E","r","r","o","r">>

\* isinstance(v, dict) / isinstance(v, list) / isinstance(v, str)
IsDict(v) == v.k = "dict"
IsList(v) == v.k = "list"
IsStr(v) == v.k = "str"
IsRaised(v) == v.k = "raise"

\* bool(v)
Truthy(v) ==
    CASE v.k = "none" -> FALSE
      [] v.k = "str"  -> v.s # <<>>
      [] v.k = "num"  -> v.n # 0
      [] v.k = "bool" -> v.n = 1
      [] v.k = "dict" -> DOMAIN v.d # {}
      [] v.k = "list" -> v.l # <<>>
      [] OTHER        -> TRUE

\* `a or b`
Or(a, b) == IF Truthy(a) THEN a ELSE b

\* `key in v` for a dict
Has(v, key) == key \in DOMAIN v.d

\* v.get(key, default) and v.get(key)
GetDefault(v, key, default) == IF key \in DOMAIN v.d THEN v.d[key] ELSE default
Get(v, key) == GetDefault(v, key, None)

\* v[key] = val
Put(v, key, val) ==
    Dict([x \in (DOMAIN v.d) \cup {key} |-> IF x = key THEN val ELSE v.d[x]])

\* v.update(w) with the keys already in v left as they are
Update_keep_first(v, w) ==
    Dict([x \in (DOMAIN v.d) \cup (DOMAIN w.d) |->
            IF x \in DOMAIN v.d THEN v.d[x] ELSE w.d[x]])

\* v.update(w)
Update(v, w) ==
    Dict([x \in (DOMAIN v.d) \cup (DOMAIN w.d) |->
            IF x \in DOMAIN w.d THEN w.d[x] ELSE v.d[x]])

\* len(v) of a str, list or dict
PyLen(v) ==
    CASE v.k = "str"  -> Len(v.s)
      [] v.k = "list" -> Len(v.l)
      [] OTHER        -> Cardinality(DOMAIN v.d)

-----------------------------------------------------------------------------
\* More Python string operations

WhiteSpace == {" ", "\t", "\n", "\r"}

RECURSIVE LStrip(_)
LStrip(s) == IF s # <<>> /\ Head(s) \in WhiteSpace THEN LStrip(Tail(s)) ELSE s

RECURSIVE RStrip(_)
RStrip(s) ==
    IF s # <<>> /\ s[Len(s)] \in WhiteSpace THEN RStrip(SubSeq(s, 1, Len(s) - 1)) ELSE s

\* str.strip()
Strip(s) == RStrip(LStrip(s))

\* s.startswith(t)
StartsWith(s, t) == Len(t) <= Len(s) /\ SubSeq(s, 1, Len(t)) = t

\* Is t found in s at (1-based) position p ?
OccursAt(s, t, p) == p >= 1 /\ p + Len(t) - 1 <= Len(s) /\ SubSeq(s, p, p + Len(t) - 1) = t

\* s.find(t) + 1: the position of the first occurrence, 0 for Python's -1
Find(s, t) ==
    IF Contains(s, t)
    THEN CHOOSE p \in 1..Len(s) + 1 :
            OccursAt(s, t, p) /\ \A q \in 1..(p - 1) : ~OccursAt(s, t, q)
    ELSE 0

\* s.rfind(t) + 1: the position of the last occurrence, 0 for Python's -1
RFind(s, t) ==
    IF Contains(s, t)
    THEN CHOOSE p \in 1..Len(s) + 1 :
            OccursAt(s, t, p) /\ \A q \in (p + 1)..(Len(s) + 1) : ~OccursAt(s, t, q)
    ELSE 0

\* s.split(sep)
RECURSIVE Split(_, _)
SplitAt(s, sep, p) ==
    IF p = 0 THEN <<s>>
    ELSE <<SubSeq(s, 1, p - 1)>> \o Split(SubSeq(s, p + Len(sep), Len(s)), sep)

Split(s, sep) == SplitAt(s, sep, Find(s, sep))

RECURSIVE SkipWs(_, _)
SkipWs(s, i) == IF i <= Len(s) /\ s[i] \in WhiteSpace THEN SkipWs(s, i + 1) ELSE i

\* the last position of the word that starts at i
WordEnd(s, i) ==
    CHOOSE j \in i..Len(s) :
        /\ \A m \in i..j : s[m] \notin WhiteSpace
        /\ (j = Len(s) \/ s[j + 1] \in WhiteSpace)

RECURSIVE WordsFrom(_, _)
WordsBetween(s, i, j) == <<SubSeq(s, i, j)>> \o WordsFrom(s, SkipWs(s, j + 1))

WordsFrom(s, i) == IF i > Len(s) THEN <<>> ELSE WordsBetween(s, i, WordEnd(s, i))

\* s.split(): the words between runs of whitespace
SplitWords(s) == WordsFrom(s, SkipWs(s, 1))

\* sep.join(parts)
RECURSIVE Join(_, _)
Join(sep, parts) ==
    IF parts = <<>> THEN <<>>
    ELSE IF Len(parts) = 1 THEN parts[1]
    ELSE parts[1] \o sep \o Join(sep, Tail(parts))

\* s.replace(a, b) for single characters
ReplaceChar(s, a, b) == [i \in DOMAIN s |-> IF s[i] = a THEN b ELSE s[i]]

\* s.replace(a, "") for a single character
RemoveChar(s, a) == SelectSeq(s, LAMBDA c : c # a)

\* word.capitalize()
Capitalize(w) ==
    IF w = <<>> THEN w ELSE Upper(<<w[1]>>) \o Lower(Tail(w))

\* s.isdigit()
IsDigit(s) == s # <<>> /\ \A i \in DOMAIN s : s[i] \in {"0","1","2","3","4","5","6","7","8","9"}

-----------------------------------------------------------------------------
\* json.loads (json/decoder.py as used at stream_extractor.py:54, 79, 100, 514)
\* on objects, arrays, strings with the simple escapes, integers and the three
\* literals. A parse result is [ok, v, n]: success, the value, the next position.
\* json.JSONDecodeError is ok = FALSE. Each step of the decoder is an operator
\* that receives what the steps before it have read.

Fail == [ok |-> FALSE, v |-> None, n |-> 0]
Ok(v, n) == [ok |-> TRUE, v |-> v, n |-> n]

Escapes ==
    ("\"" :> "\"") @@ ("\\" :> "\\") @@ ("/" :> "/") @@ ("n" :> "\n") @@
    ("t" :> "\t") @@ ("r" :> "\r")

\* Is position j of s preceded by an odd run of backslashes (all at or after i)?
EscapedAt(s, i, j) ==
    (CHOOSE k \in 0..(j - i) :
        /\ \A m \in (j - k)..(j - 1) : s[m] = "\\"
        /\ (k = j - i \/ s[j - k - 1] # "\\")) % 2 = 1

\* Does the string literal whose characters start at i end with the quote at j?
Closes(s, i, j) == s[j] = "\"" /\ ~EscapedAt(s, i, j)

\* the characters of a string literal with the escapes replaced; ok = FALSE
\* for an invalid escape
RECURSIVE Unescape(_)
UnescapeRest(raw, p, rest) ==
    [ok |-> rest.ok, s |-> SubSeq(raw, 1, p - 1) \o <<Escapes[raw[p + 1]]>> \o rest.s]

UnescapeAt(raw, p) ==
    IF p = 0 THEN [ok |-> TRUE, s |-> raw]
    ELSE IF p = Len(raw) \/ raw[p + 1] \notin DOMAIN Escapes THEN [ok |-> FALSE, s |-> <<>>]
    ELSE UnescapeRest(raw, p, Unescape(SubSeq(raw, p + 2, Len(raw))))

Unescape(raw) == UnescapeAt(raw, Find(raw, <<"\\">>))

StringValue(chars, next) == IF chars.ok THEN Ok(Str(chars.s), next) ELSE Fail

\* control characters are not allowed in a string literal
StringOf(raw, next) ==
    IF \E m \in DOMAIN raw : raw[m] \in {"\n", "\t", "\r"} THEN Fail
    ELSE StringValue(Unescape(raw), next)

StringUpTo(s, i, closing) == StringOf(SubSeq(s, i, closing - 1), closing + 1)

\* a string literal, from the position i after its opening quote up to the
\* first quote that is not escaped
ScanString(s, i) ==
    IF ~\E j \in i..Len(s) : Closes(s, i, j) THEN Fail
    ELSE StringUpTo(s, i, CHOOSE j \in i..Len(s) :
                             Closes(s, i, j) /\ \A m \in i..(j - 1) : ~Closes(s, i, m))

DigitValue ==
    ("0" :> 0) @@ ("1" :> 1) @@ ("2" :> 2) @@ ("3" :> 3) @@ ("4" :> 4) @@
    ("5" :> 5) @@ ("6" :> 6) @@ ("7" :> 7) @@ ("8" :> 8) @@ ("9" :> 9)

RECURSIVE ScanDigits(_, _, _)
ScanDigits(s, i, acc) ==
    IF i <= Len(s) /\ s[i] \in DOMAIN DigitValue
    THEN ScanDigits(s, i + 1, acc * 10 + DigitValue[s[i]])
    ELSE Ok(Num(acc), i)

\* fractions and exponents are outside the texts of the model
NumberEnd(s, sign, r) ==
    IF r.n <= Len(s) /\ s[r.n] \in {".", "e", "E"} THEN Fail
    ELSE Ok(Num(sign * r.v.n), r.n)

NumberAt(s, sign, j) ==
    IF j > Len(s) \/ s[j] \notin DOMAIN DigitValue THEN Fail
    ELSE NumberEnd(s, sign, IF s[j] = "0" THEN Ok(Num(0), j + 1) ELSE ScanDigits(s, j, 0))

\* an integer: -? (0 | [1-9][0-9]*)
ScanNumber(s, i) == IF s[i] = "-" THEN NumberAt(s, 0 - 1, i + 1) ELSE NumberAt(s, 1, i)

L_true == <<"t","r","u","e">>
L_false == <<"f","a","l","s","e">>
L_null == <<"n","u","l","l">>

RECURSIVE ParseValue(_, _)
RECURSIVE ParseMembers(_, _, _)
RECURSIVE ParseElements(_, _, _)

\* after a member: `}` ends the object, `,` needs another member
MemberEnd(s, e, acc) ==
    IF e > Len(s) THEN Fail
    ELSE IF s[e] = "}" THEN Ok(acc, e + 1)
    ELSE IF s[e] = "," THEN ParseMembers(s, SkipWs(s, e + 1), acc)
    ELSE Fail

MemberValue(s, key, val, acc) ==
    IF ~val.ok THEN Fail ELSE MemberEnd(s, SkipWs(s, val.n), Put(acc, key, val.v))

MemberColon(s, key, c, acc) ==
    IF c > Len(s) \/ s[c] # ":" THEN Fail
    ELSE MemberValue(s, key, ParseValue(s, SkipWs(s, c + 1)), acc)

MemberKey(s, key, acc) ==
    IF ~key.ok THEN Fail ELSE MemberColon(s, key.v.s, SkipWs(s, key.n), acc)

\* the members of an object, from the position of a key's opening quote
ParseMembers(s, i, acc) ==
    IF i > Len(s) \/ s[i] # "\"" THEN Fail ELSE MemberKey(s, ScanString(s, i + 1), acc)

\* after an element: `]` ends the array, `,` needs another element
ElementEnd(s, e, acc) ==
    IF e > Len(s) THEN Fail
    ELSE IF s[e] = "]" THEN Ok(acc, e + 1)
    ELSE IF s[e] = "," THEN ParseElements(s, SkipWs(s, e + 1), acc)
    ELSE Fail

ElementValue(s, val, acc) ==
    IF ~val.ok THEN Fail ELSE ElementEnd(s, SkipWs(s, val.n), List(Append(acc.l, val.v)))

\* the elements of an array, from the position of an element
ParseElements(s, i, acc) == ElementValue(s, ParseValue(s, i), acc)

ObjectFrom(s, j) ==
    IF j <= Len(s) /\ s[j] = "}" THEN Ok(EmptyDict, j + 1) ELSE ParseMembers(s, j, EmptyDict)

ArrayFrom(s, j) ==
    IF j <= Len(s) /\ s[j] = "]" THEN Ok(EmptyList, j + 1) ELSE ParseElements(s, j, EmptyList)

ParseValue(s, i) ==
    IF i > Len(s) THEN Fail
    ELSE IF s[i] = "\"" THEN ScanString(s, i + 1)
    ELSE IF s[i] = "{" THEN ObjectFrom(s, SkipWs(s, i + 1))
    ELSE IF s[i] = "[" THEN ArrayFrom(s, SkipWs(s, i + 1))
    ELSE IF OccursAt(s, L_true, i) THEN Ok(Bool(TRUE), i + 4)
    ELSE IF OccursAt(s, L_false, i) THEN Ok(Bool(FALSE), i + 5)
    ELSE IF OccursAt(s, L_null, i) THEN Ok(None, i + 4)
    ELSE IF s[i] = "-" \/ s[i] \in DOMAIN DigitValue THEN ScanNumber(s, i)
    ELSE Fail

\* only whitespace may follow the value
WholeText(s, r) == IF r.ok /\ SkipWs(s, r.n) > Len(s) THEN r ELSE Fail

\* json.loads(s): one value, surrounded by whitespace only
json_loads(s) == WholeText(s, ParseValue(s, SkipWs(s, 1)))

-----------------------------------------------------------------------------
\* Keys and literals of stream_extractor.py

\* A TLA+ string cannot hold the character ` : it is written ~ here (no text of
\* the model holds a tilde).
BACKTICK == "~"

Key_summary == <<"s","u","m","m","a","r","y">>
Key_overall_status == <<"o","v","e","r","a","l","l","_","s","t","a","t","u","s">>
Key_metrics == <<"m","e","t","r","i","c","s">>
Key_model_usage == <<"m","o","d","e","l","_","u","s","a","g","e">>
Key_performance == <<"p","e","r","f","o","r","m","a","n","c","e">>
Key_inline_comments == <<"i","n","l","i","n","e","_","c","o","m","m","e","n","t","s">>
Key_code_review_output == <<"c","o","d","e","_","r","e","v","i","e","w","_","o","u","t","p","u","t">>
Key_formatted_output == <<"f","o","r","m","a","t","t","e","d","_","o","u","t","p","u","t">>
Key_performance_metrics == <<"p","e","r","f","o","r","m","a","n","c","e","_","m","e","t","r","i","c","s">>
Key_model_fallbacks == <<"m","o","d","e","l","_","f","a","l","l","b","a","c","k","s">>
Key_files_reviewed == <<"f","i","l","e","s","_","r","e","v","i","e","w","e","d">>
Key_issues_found == <<"i","s","s","u","e","s","_","f","o","u","n","d">>
Key_critical_issues == <<"c","r","i","t","i","c","a","l","_","i","s","s","u","e","s">>
Key_warnings == <<"w","a","r","n","i","n","g","s">>
Key_suggestions == <<"s","u","g","g","e","s","t","i","o","n","s">>
Key_style_score == <<"s","t","y","l","e","_","s","c","o","r","e">>
Key_review_duration_seconds == <<"r","e","v","i","e","w","_","d","u","r","a","t","i","o","n","_","s","e","c","o","n","d","s">>
Key_tokens_used == <<"t","o","k","e","n","s","_","u","s","e","d">>
Key_input_tokens == <<"i","n","p","u","t","_","t","o","k","e","n","s">>
Key_output_tokens == <<"o","u","t","p","u","t","_","t","o","k","e","n","s">>
Key_estimated_cost_usd == <<"e","s","t","i","m","a","t","e","d","_","c","o","s","t","_","u","s","d">>
Key_agents_used == <<"a","g","e","n","t","s","_","u","s","e","d">>
Key_tool_calls == <<"t","o","o","l","_","c","a","l","l","s">>
Key_chunks_received == <<"c","h","u","n","k","s","_","r","e","c","e","i","v","e","d">>
Key_agents == <<"a","g","e","n","t","s">>
Key_fallbacks_used == <<"f","a","l","l","b","a","c","k","s","_","u","s","e","d">>
Key_used_fallback == <<"u","s","e","d","_","f","a","l","l","b","a","c","k">>
Key_primary == <<"p","r","i","m","a","r","y">>
Key_fallback == <<"f","a","l","l","b","a","c","k">>
Key_used == <<"u","s","e","d">>
S_COMMENT == <<"C","O","M","M","E","N","T">>
S_APPROVED == <<"A","P","P","R","O","V","E","D">>
S_NEEDS_CHANGES == <<"N","E","E","D","S","_","C","H","A","N","G","E","S">>
W_python == <<"p","y","t","h","o","n">>
W_typescript == <<"t","y","p","e","s","c","r","i","p","t">>
W_orchestrator == <<"o","r","c","h","e","s","t","r","a","t","o","r">>
W_publisher == <<"p","u","b","l","i","s","h","e","r">>
W_analyzer == <<"a","n","a","l","y","z","e","r">>
W_reviewer == <<"r","e","v","i","e","w","e","r">>
A_PythonCodeAnalyzer == <<"P","y","t","h","o","n","C","o","d","e","A","n","a","l","y","z","e","r">>
A_TypeScriptCodeAnalyzer == <<"T","y","p","e","S","c","r","i","p","t","C","o","d","e","A","n","a","l","y","z","e","r">>
A_CodeReviewOrchestrator == <<"C","o","d","e","R","e","v","i","e","w","O","r","c","h","e","s","t","r","a","t","o","r">>
A_ReviewPublisher == <<"R","e","v","i","e","w","P","u","b","l","i","s","h","e","r">>
M_Codestral == <<"C","o","d","e","s","t","r","a","l">>
M_Gemini25Pro == <<"G","e","m","i","n","i"," ","2",".","5"," ","P","r","o">>
FENCE == <<BACKTICK,BACKTICK,BACKTICK>>
FENCE_json == <<BACKTICK,BACKTICK,BACKTICK,"j","s","o","n">>
MSG_not_extracted == <<"C","o","d","e"," ","r","e","v","i","e","w"," ","c","o","m","p","l","e","t","e","d"," ","s","u","c","c","e","s","s","f","u","l","l","y",","," ","b","u","t"," ","t","h","e"," ","r","e","v","i","e","w"," ","c","o","n","t","e","n","t"," ","c","o","u","l","d"," ","n","o","t"," ","b","e"," ","e","x","t","r","a","c","t","e","d"," ","f","r","o","m"," ","t","h","e"," ","a","g","e","n","t"," ","r","e","s","p","o","n","s","e","."," ","T","h","i","s"," ","u","s","u","a","l","l","y"," ","i","n","d","i","c","a","t","e","s"," ","a"," ","s","t","r","e","a","m","i","n","g"," ","r","e","s","p","o","n","s","e"," ","s","c","h","e","m","a"," ","m","i","s","m","a","t","c","h","."," ","P","l","e","a","s","e"," ","c","h","e","c","k"," ","w","o","r","k","f","l","o","w"," ","l","o","g","s"," ","f","o","r"," ","d","e","t","a","i","l","s",".">>
Key_text == <<"t","e","x","t">>
Key_content == <<"c","o","n","t","e","n","t">>
Key_parts == <<"p","a","r","t","s">>
Key_candidates == <<"c","a","n","d","i","d","a","t","e","s">>
Key_actions == <<"a","c","t","i","o","n","s">>
Key_state_delta == <<"s","t","a","t","e","_","d","e","l","t","a">>
Key_agent == <<"a","g","e","n","t">>
S_Unknown == <<"U","n","k","n","o","w","n">>
S_models_sep == <<"/","m","o","d","e","l","s","/">>
S_gemini == <<"g","e","m","i","n","i">>
S_25 == <<"2",".","5">>
S_gemini_25_pro == <<"g","e","m","i","n","i","-","2",".","5","-","p","r","o">>

-----------------------------------------------------------------------------
\* Exceptions: type(e).__name__, str(e), and the __cause__/__context__ chain

NoChain == <<>>
MkErr(t, m, ch) == [type |-> t, msg |-> m, chain |-> ch]
NoErr == MkErr(<<>>, <<>>, NoChain)

T_ResourceExhausted == <<"R","e","s","o","u","r","c","e","E","x","h","a","u","s","t","e","d">>
T_InvalidArgument == <<"I","n","v","a","l","i","d","A","r","g","u","m","e","n","t">>
T_NotFound == <<"N","o","t","F","o","u","n","d">>
T_FailedPrecondition == <<"F","a","i","l","e","d","P","r","e","c","o","n","d","i","t","i","o","n">>
T_Unavailable == <<"U","n","a","v","a","i","l","a","b","l","e">>
T_PermissionDenied == <<"P","e","r","m","i","s","s","i","o","n","D","e","n","i","e","d">>
T_ValueError == <<"V","a","l","u","e","E","r","r","o","r">>
T_Exception == <<"E","x","c","e","p","t","i","o","n">>
T_RuntimeError == <<"R","u","n","t","i","m","e","E","r","r","o","r">>
T_TimeoutError == <<"T","i","m","e","o","u","t","E","r","r","o","r">>

Msg_quota == <<"q","u","o","t","a">>
Msg_res429 == <<"R","E","S","O","U","R","C","E","_","E","X","H","A","U","S","T","E","D",":"," ","4","2","9">>
Msg_bad == <<"b","a","d"," ","a","r","g","u","m","e","n","t">>
Msg_unavail == <<"m","o","d","e","l"," ","u","n","a","v","a","i","l","a","b","l","e">>
Msg_wrapped == <<"w","r","a","p","p","e","d">>

\* The exceptions a producer attempt may raise
E_quota == MkErr(T_ResourceExhausted, Msg_quota, NoChain)
E_429 == MkErr(T_Exception, Msg_res429, NoChain)
E_value == MkErr(T_ValueError, Msg_bad, NoChain)
E_model == MkErr(T_Exception, Msg_unavail, NoChain)
E_chained == MkErr(T_RuntimeError, Msg_wrapped, <<[type |-> T_Unavailable, msg |-> Msg_bad]>>)

ProducerErrors == {E_quota, E_429, E_value, E_model, E_chained}

-----------------------------------------------------------------------------
\* is_token_quota_error (src/app/utils/model_fallback.py)

RESOURCE_EXHAUSTED == <<"R","E","S","O","U","R","C","E","_","E","X","H","A","U","S","T","E","D">>
S_429 == <<"4","2","9">>
QUOTA_EXCEEDED == <<"Q","U","O","T","A","_","E","X","C","E","E","D","E","D">>
RATE_LIMIT == <<"R","A","T","E","_","L","I","M","I","T">>
TOKEN_LIMIT == <<"T","O","K","E","N","_","L","I","M","I","T">>
CONTEXT_LENGTH == <<"C","O","N","T","E","X","T","_","L","E","N","G","T","H">>
MAX_TOKENS == <<"M","A","X","_","T","O","K","E","N","S">>
OUT_OF_TOKENS == <<"O","U","T","_","O","F","_","T","O","K","E","N","S">>
QUOTA == <<"Q","U","O","T","A">>

token_quota_indicators ==
    {RESOURCE_EXHAUSTED, S_429, QUOTA_EXCEEDED, RATE_LIMIT, TOKEN_LIMIT,
     CONTEXT_LENGTH, MAX_TOKENS, OUT_OF_TOKENS, QUOTA}

\* lines 33-52 without .upper(): the message and the type name as they are
is_token_quota_error_case_sensitive(error) ==
    \E indicator \in token_quota_indicators :
        Contains(error.msg, indicator) \/ Contains(error.type, indicator)

\* is_token_quota_error (lines 23-52)
is_token_quota_error(error) ==
    LET error_str == Upper(error.msg)
        error_type == Upper(error.type)
    IN \E indicator \in token_quota_indicators :
           Contains(error_str, indicator) \/ Contains(error_type, indicator)

\* FALLBACK_ENABLED = os.getenv("FALLBACK_ENABLED", "true").lower() == "true"
FALLBACK_ENABLED == TRUE

-----------------------------------------------------------------------------
\* _is_model_error (src/app/agent.py)

model_error_types ==
    {T_ResourceExhausted, T_InvalidArgument, T_NotFound, T_FailedPrecondition,
     T_Unavailable, T_PermissionDenied}

K_model == <<"m","o","d","e","l">>
K_quota == <<"q","u","o","t","a">>
K_rate_limit == <<"r","a","t","e"," ","l","i","m","i","t">>
K_unavailable == <<"u","n","a","v","a","i","l","a","b","l","e">>
K_not_found == <<"n","o","t"," ","f","o","u","n","d">>
K_not_available == <<"n","o","t"," ","a","v","a","i","l","a","b","l","e">>
K_resource_exhausted == <<"r","e","s","o","u","r","c","e"," ","e","x","h","a","u","s","t","e","d">>
K_permission_denied == <<"p","e","r","m","i","s","s","i","o","n"," ","d","e","n","i","e","d">>

model_error_keywords ==
    {K_model, K_quota, K_rate_limit, K_unavailable, K_not_found, K_not_available,
     K_resource_exhausted, K_permission_denied}

\* range(5): the exception itself and up to four chained exceptions
ChainDepth == 5

is_model_error(exception) ==
    LET error_type == exception.type
        error_message == Lower(exception.msg)
        types == <<exception.type>> \o [i \in DOMAIN exception.chain |-> exception.chain[i].type]
    IN \/ error_type \in model_error_types
       \/ \E keyword \in model_error_keywords : Contains(error_message, keyword)
       \/ \E i \in 1..ChainDepth : i <= Len(types) /\ types[i] \in model_error_types

-----------------------------------------------------------------------------
\* ModelRouter (src/app/utils/model_router.py)

PrimaryModel == <<"g","e","m","i","n","i","-","2",".","5","-","p","r","o">>
SecondaryModel == <<"l","l","a","m","a","-","4">>
AgentName == <<"C","o","d","e","A","n","a","l","y","z","e","r">>
OtherAgent == <<"P","u","b","l","i","s","h","e","r">>
NoModel == <<>>

\* ModelRouter.__init__
ModelRouterInit(primary_model, secondary_model) ==
    [primary_model |-> primary_model,
     secondary_model |-> secondary_model,
     last_used_model |-> NoModel,
     used_fallback |-> FALSE]

get_model(r) == IF r.used_fallback THEN r.secondary_model ELSE r.primary_model

should_fallback_always(r, error) == TRUE

should_fallback(r, error) == FALLBACK_ENABLED /\ is_token_quota_error(error)

record_fallback_never(r) == r

\* lines 80-82 without the `if not self.used_fallback` guard, flipping the flag
record_fallback_toggle(r) ==
    [r EXCEPT !.used_fallback = ~@,
              !.last_used_model = IF r.used_fallback THEN r.primary_model
                                                     ELSE r.secondary_model]

\* ModelRouter.record_fallback (lines 78-86)
record_fallback(r) ==
    IF ~r.used_fallback
    THEN [r EXCEPT !.used_fallback = TRUE, !.last_used_model = r.secondary_model]
    ELSE r

\* the FallbackRecord appended to state["model_fallbacks"]
FallbackRecord(name, r) ==
    [agent |-> name, primary |-> r.primary_model, fallback |-> r.secondary_model]

\* if "model_fallbacks" not in state: state["model_fallbacks"] = []; then append
AppendFallback(st, rec) ==
    [st EXCEPT !.keys = @ \cup {"model_fallbacks"},
               !.model_fallbacks = Append(@, rec)]

MSG_both_1 == <<"A","g","e","n","t"," ">>
MSG_both_2 == <<" ","f","a","i","l","e","d"," ","w","i","t","h"," ","b","o","t","h"," ","m","o","d","e","l","s","."," ","P","r","i","m","a","r","y"," ","(">>
MSG_both_3 == <<")"," ","e","r","r","o","r",":"," ">>
MSG_both_4 == <<"."," ","S","e","c","o","n","d","a","r","y"," ","(">>

\* raise RuntimeError(f"Agent {name} failed with both models. ...") from fallback_error
CombinedError(name, r, e, fallback_error) ==
    MkErr(T_RuntimeError,
          MSG_both_1 \o name \o MSG_both_2 \o r.primary_model \o MSG_both_3 \o e.msg
              \o MSG_both_4 \o r.secondary_model \o MSG_both_3 \o fallback_error.msg,
          <<[type |-> fallback_error.type, msg |-> fallback_error.msg]>>
              \o fallback_error.chain)

-----------------------------------------------------------------------------
\* Each specification runs one component; the others stay as constructed.

ConsumerIdle ==
    /\ c_kind = "none" /\ c_pc = "idle"
    /\ c_attempt = 0 /\ c_delay = 0 /\ c_now = 0 /\ c_wait_until = 0
    /\ c_buf = <<>> /\ c_count = 0 /\ c_complete = FALSE /\ c_error = NoErr
    /\ c_workers = <<>> /\ c_log = <<>>
    /\ c_result = "none" /\ c_value = None /\ c_raised = NoErr

AggregateIdle ==
    /\ a_pc = "idle" /\ a_chunks = <<>> /\ a_i = 0
    /\ a_parts = <<>> /\ a_merged = EmptyDict /\ a_text = <<>> /\ a_raised = NoErr

ReconcileIdle ==
    /\ q_pc = "idle" /\ q_text = <<>> /\ q_input_state = EmptyDict
    /\ q_state = EmptyDict /\ q_result = None /\ q_raised = NoErr

ObjectIdle ==
    /\ m_router = ModelRouterInit(PrimaryModel, SecondaryModel)
    /\ m_calls = 0
    /\ m_first = m_router
    /\ m_asked = {}

-----------------------------------------------------------------------------
\* Executor invocations: RoutedAgent._run_async_impl (model_router.py:133-214)
\* and ModelFallbackAgent._run_async_impl (agent.py:179-222)

\* LANGUAGE_DETECTOR_MODEL / LANGUAGE_DETECTOR_FALLBACK_MODEL (agent.py:26)
LANGUAGE_DETECTOR_MODEL == <<"c","o","d","e","s","t","r","a","l">>
LANGUAGE_DETECTOR_FALLBACK_MODEL == <<"f","l","a","s","h">>

OtherRecord == [agent |-> OtherAgent, primary |-> PrimaryModel, fallback |-> SecondaryModel]

RouterVarsInit ==
    /\ router = ModelRouterInit(PrimaryModel, SecondaryModel)
    /\ agent_model = get_model(router)
    /\ \E pre \in {<<>>, <<OtherRecord>>} :
          session = [keys |-> IF pre = <<>> THEN {"other"} ELSE {"other", "model_fallbacks"},
                     model_fallbacks |-> pre,
                     model_used |-> NoModel,
                     other |-> 1]
    /\ r_pc = "idle"
    /\ r_kind = "none"
    /\ r_has_session = TRUE
    /\ r_calls = <<>>
    /\ r_err1 = NoErr
    /\ r_err2 = NoErr
    /\ r_raised = NoErr
    /\ r_out = <<>>
    /\ r_inv = 0
    /\ r_base = [n |-> 0, used_fallback |-> FALSE, session |-> session]

CanStart == r_pc \in {"idle", "returned", "raised"} /\ r_inv < MaxInvocations

\* lines 144-149: self.model = router.get_model(); await super()._run_async_impl(...)
RoutedStart ==
    /\ CanStart
    /\ \E hs \in BOOLEAN : r_has_session' = hs
    /\ r_kind' = "routed"
    /\ agent_model' = get_model(router)
    /\ r_calls' = <<get_model(router)>>
    /\ r_pc' = "attempt1"
    /\ r_err1' = NoErr /\ r_err2' = NoErr /\ r_raised' = NoErr
    /\ r_out' = <<>>
    /\ r_inv' = r_inv + 1
    /\ r_base' = [n |-> Len(session.model_fallbacks),
                  used_fallback |-> router.used_fallback,
                  session |-> session]
    /\ UNCHANGED <<router, session>>
    /\ UNCHANGED notRouterVars

\* lines 149-167: the first attempt returned a result
RoutedAttempt1Ok ==
    /\ r_pc = "attempt1" /\ r_kind = "routed"
    /\ session' = IF router.used_fallback /\ r_has_session
                  THEN AppendFallback(session, FallbackRecord(AgentName, router))
                  ELSE session
    /\ r_pc' = "returned"
    /\ UNCHANGED <<router, agent_model, r_kind, r_has_session, r_calls, r_err1,
                   r_err2, r_raised, r_out, r_inv, r_base>>
    /\ UNCHANGED notRouterVars

\* lines 169-180 and 211-214: the first attempt raised e
RoutedAttempt1Err ==
    /\ r_pc = "attempt1" /\ r_kind = "routed"
    /\ \E e \in ProducerErrors :
          /\ r_err1' = e
          /\ IF should_fallback(router, e)
             THEN /\ router' = record_fallback(router)
                  /\ agent_model' = get_model(router')
                  /\ r_calls' = Append(r_calls, get_model(router'))
                  /\ r_pc' = "attempt2"
                  /\ r_raised' = r_raised
             ELSE /\ r_raised' = e
                  /\ r_pc' = "raised"
                  /\ UNCHANGED <<router, agent_model, r_calls>>
    /\ UNCHANGED <<session, r_kind, r_has_session, r_err2, r_out, r_inv, r_base>>
    /\ UNCHANGED notRouterVars

\* lines 180-197: the retry on the secondary model returned a result
RoutedAttempt2Ok ==
    /\ r_pc = "attempt2" /\ r_kind = "routed"
    /\ session' = IF r_has_session
                  THEN AppendFallback(session, FallbackRecord(AgentName, router))
                  ELSE session
    /\ r_pc' = "returned"
    /\ UNCHANGED <<router, agent_model, r_kind, r_has_session, r_calls, r_err1,
                   r_err2, r_raised, r_out, r_inv, r_base>>
    /\ UNCHANGED notRouterVars

\* lines 199-210: the retry raised fallback_error
RoutedAttempt2Err ==
    /\ r_pc = "attempt2" /\ r_kind = "routed"
    /\ \E fallback_error \in ProducerErrors :
          /\ r_err2' = fallback_error
          /\ r_raised' = CombinedError(AgentName, router, r_err1, fallback_error)
    /\ r_pc' = "raised"
    /\ UNCHANGED <<router, agent_model, session, r_kind, r_has_session, r_calls,
                   r_err1, r_out, r_inv, r_base>>
    /\ UNCHANGED notRouterVars

\* agent.py:188-192: state["model_used"] = primary; iterate primary_agent.run_async(ctx)
FallbackStart ==
    /\ CanStart
    /\ r_kind' = "fallback_agent"
    /\ r_has_session' = TRUE
    /\ session' = [session EXCEPT !.keys = @ \cup {"model_used"},
                                  !.model_used = LANGUAGE_DETECTOR_MODEL]
    /\ r_calls' = <<LANGUAGE_DETECTOR_MODEL>>
    /\ r_pc' = "attempt1"
    /\ r_err1' = NoErr /\ r_err2' = NoErr /\ r_raised' = NoErr
    /\ r_out' = <<>>
    /\ r_inv' = r_inv + 1
    /\ r_base' = [n |-> Len(session.model_fallbacks),
                  used_fallback |-> router.used_fallback,
                  session |-> session]
    /\ UNCHANGED <<router, agent_model>>
    /\ UNCHANGED notRouterVars

EventsOf(attempt) == SelectSeq(r_out, LAMBDA ev : ev.attempt = attempt)

\* agent.py:192-193 and 219-220: `yield event`, forwarded as it arrives
FallbackEmit ==
    /\ r_kind = "fallback_agent" /\ r_pc \in {"attempt1", "attempt2"}
    /\ LET a == IF r_pc = "attempt1" THEN 1 ELSE 2 IN
          /\ Len(EventsOf(a)) < MaxEvents
          /\ r_out' = Append(r_out, [attempt |-> a, idx |-> Len(EventsOf(a)) + 1])
    /\ UNCHANGED <<router, agent_model, session, r_pc, r_kind, r_has_session,
                   r_calls, r_err1, r_err2, r_raised, r_inv, r_base>>
    /\ UNCHANGED notRouterVars

\* agent.py:195-197: the primary agent's stream ended normally
FallbackAttempt1Ok ==
    /\ r_pc = "attempt1" /\ r_kind = "fallback_agent"
    /\ r_pc' = "returned"
    /\ UNCHANGED <<router, agent_model, session, r_kind, r_has_session, r_calls,
                   r_err1, r_err2, r_raised, r_out, r_inv, r_base>>
    /\ UNCHANGED notRouterVars

\* agent.py:199-219: the primary agent's stream raised e
FallbackAttempt1Err ==
    /\ r_pc = "attempt1" /\ r_kind = "fallback_agent"
    /\ \E e \in ProducerErrors :
          /\ r_err1' = e
          /\ IF ~is_model_error(e)
             THEN /\ r_raised' = e
                  /\ r_pc' = "raised"
                  /\ UNCHANGED <<session, r_calls>>
             ELSE /\ session' = [session EXCEPT !.model_used = LANGUAGE_DETECTOR_FALLBACK_MODEL]
                  /\ r_calls' = Append(r_calls, LANGUAGE_DETECTOR_FALLBACK_MODEL)
                  /\ r_pc' = "attempt2"
                  /\ r_raised' = r_raised
    /\ UNCHANGED <<router, agent_model, r_kind, r_has_session, r_err2, r_out, r_inv, r_base>>
    /\ UNCHANGED notRouterVars

\* agent.py:219-222: the fallback agent's stream ended normally
FallbackAttempt2Ok ==
    /\ r_pc = "attempt2" /\ r_kind = "fallback_agent"
    /\ r_pc' = "returned"
    /\ UNCHANGED <<router, agent_model, session, r_kind, r_has_session, r_calls,
                   r_err1, r_err2, r_raised, r_out, r_inv, r_base>>
    /\ UNCHANGED notRouterVars

\* agent.py:219-220: the fallback agent's stream raised inside the except block;
\* nothing catches it, so it leaves the generator with __context__ = e
UncaughtInExcept(e, fallback_error) ==
    [fallback_error EXCEPT !.chain = @ \o <<[type |-> e.type, msg |-> e.msg]>>]

FallbackAttempt2Err ==
    /\ r_pc = "attempt2" /\ r_kind = "fallback_agent"
    /\ \E fallback_error \in ProducerErrors :
          /\ r_err2' = fallback_error
          /\ r_raised' = UncaughtInExcept(r_err1, fallback_error)
    /\ r_pc' = "raised"
    /\ UNCHANGED <<router, agent_model, session, r_kind, r_has_session, r_calls,
                   r_err1, r_out, r_inv, r_base>>
    /\ UNCHANGED notRouterVars

RouterNext ==
    \/ RoutedStart
    \/ RoutedAttempt1Ok
    \/ RoutedAttempt1Err
    \/ RoutedAttempt2Ok
    \/ RoutedAttempt2Err
    \/ FallbackStart
    \/ FallbackEmit
    \/ FallbackAttempt1Ok
    \/ FallbackAttempt1Err
    \/ FallbackAttempt2Ok
    \/ FallbackAttempt2Err

RouterIdle == RouterVarsInit /\ session.model_fallbacks = <<>>

RouterInit ==
    RouterVarsInit /\ ConsumerIdle /\ AggregateIdle /\ ReconcileIdle /\ ObjectIdle

SpecRouter == RouterInit /\ [][RouterNext]_vars

-----------------------------------------------------------------------------
\* Claims about the executors

\* the two endpoints of the executor that is running
PrimaryEndpoint == IF r_kind = "routed" THEN router.primary_model ELSE LANGUAGE_DETECTOR_MODEL
SecondaryEndpoint ==
    IF r_kind = "routed" THEN router.secondary_model ELSE LANGUAGE_DETECTOR_FALLBACK_MODEL

\* the error names the cause: its text is in the message, or it is chained to it
References(err, c) ==
    \/ Contains(err.msg, c.msg)
    \/ \E i \in DOMAIN err.chain : err.chain[i] = [type |-> c.type, msg |-> c.msg]

\* C1: a RoutedAgent invocation that starts with used_fallback = FALSE, whose
\* primary attempt raises a token/quota error and whose secondary attempt
\* succeeds, has appended exactly one FallbackRecord {agent, primary, fallback}
\* to session.state["model_fallbacks"], and the router's endpoint (get_model,
\* last_used_model, the agent's model) is the secondary model.
C1_FallbackOnceThenSecondary ==
    (/\ r_kind = "routed" /\ r_pc = "returned" /\ r_has_session
     /\ ~r_base.used_fallback
     /\ r_err1 # NoErr /\ is_token_quota_error(r_err1))
    => /\ Len(session.model_fallbacks) = r_base.n + 1
       /\ SubSeq(session.model_fallbacks, 1, r_base.n) = r_base.session.model_fallbacks
       /\ session.model_fallbacks[r_base.n + 1] =
              [agent |-> AgentName, primary |-> PrimaryModel, fallback |-> SecondaryModel]
       /\ "model_fallbacks" \in session.keys
       /\ get_model(router) = SecondaryModel
       /\ router.last_used_model = SecondaryModel
       /\ agent_model = SecondaryModel
       /\ r_calls = <<PrimaryModel, SecondaryModel>>

C1_Witness ==
    /\ r_kind = "routed" /\ r_pc = "returned" /\ r_has_session
    /\ ~r_base.used_fallback
    /\ r_err1 = E_429
    /\ r_base.n = 1
    /\ Len(session.model_fallbacks) = 2

C3_NonRetryablePropagates ==
    (/\ r_err1 # NoErr
     /\ r_calls # <<>> /\ r_calls[1] = PrimaryEndpoint
     /\ IF r_kind = "routed"
        THEN ~(FALLBACK_ENABLED /\ is_token_quota_error(r_err1))
        ELSE ~is_model_error(r_err1))
    => /\ r_pc = "raised"
       /\ r_raised = r_err1
       /\ r_err2 = NoErr
       /\ r_calls = <<PrimaryEndpoint>>
       /\ router.used_fallback = r_base.used_fallback
       /\ session.model_fallbacks = r_base.session.model_fallbacks

C3_Witness ==
    /\ r_kind = "routed" /\ r_pc = "raised"
    /\ r_err1 = E_model
    /\ r_raised = E_model
    /\ r_calls = <<PrimaryModel>>

\* C15: every invocation of RoutedAgent._run_async_impl, whatever invocations
\* of the same agent came before it, makes its first producer call on the
\* primary model and starts with used_fallback false.
C15_FirstAttemptOnPrimary ==
    (r_kind = "routed" /\ r_calls # <<>>)
    => /\ r_calls[1] = router.primary_model
       /\ ~r_base.used_fallback

\* C18: when ModelFallbackAgent's primary attempt fails with a model error and
\* the fallback attempt succeeds, the events forwarded downstream are exactly
\* the events of the fallback attempt, each once and in emission order.
C18_OnlySuccessfulAttemptForwarded ==
    (r_kind = "fallback_agent" /\ r_pc = "returned" /\ r_err1 # NoErr)
    => r_out = [i \in 1..Len(r_out) |-> [attempt |-> 2, idx |-> i]]

\* C29: compared with the session state at the start of the invocation, an
\* executor invocation has changed nothing but model_fallbacks, and that only
\* by appending FallbackRecord entries: every other key is as it was, and no
\* other key has been added.
C29_OnlyModelFallbacksAppended ==
    r_kind # "none"
    => /\ session.keys \ {"model_fallbacks"} = r_base.session.keys \ {"model_fallbacks"}
       /\ session.model_used = r_base.session.model_used
       /\ session.other = r_base.session.other
       /\ Len(session.model_fallbacks) >= r_base.n
       /\ SubSeq(session.model_fallbacks, 1, r_base.n) = r_base.session.model_fallbacks
       /\ \A i \in (r_base.n + 1)..Len(session.model_fallbacks) :
              session.model_fallbacks[i] = FallbackRecord(AgentName, router)

\* the error that ended the first attempt makes the executor try again
Retryable(e) ==
    IF r_kind = "routed" THEN should_fallback(router, e) ELSE is_model_error(e)

\* C19: once RoutedAgent's primary attempt has failed with a retryable error
\* (the secondary attempt is about to run, is running, or has ended either
\* way), the FallbackRecord of this invocation is already the last entry of
\* session.state["model_fallbacks"].
C19_RecordBeforeSecondaryAttempt ==
    (/\ r_kind = "routed" /\ r_has_session
     /\ r_err1 # NoErr /\ Retryable(r_err1))
    => /\ Len(session.model_fallbacks) = r_base.n + 1
       /\ session.model_fallbacks[r_base.n + 1] = FallbackRecord(AgentName, router)

\* C20: within one invocation the producer is called at most twice, first on
\* the primary endpoint and then, only after that call has ended with a
\* retryable error, on the secondary endpoint; while the first call is in
\* progress there is no second one; used_fallback does not return to false,
\* and get_model gives the secondary model exactly when used_fallback is true.
C20_PrimaryThenFallback ==
    r_calls # <<>>
    => /\ Len(r_calls) <= 2
       /\ r_calls[1] = PrimaryEndpoint
       /\ Len(r_calls) = 2 => /\ r_calls[2] = SecondaryEndpoint
                              /\ r_err1 # NoErr /\ Retryable(r_err1)
       /\ r_pc = "attempt1" => Len(r_calls) = 1 /\ r_err1 = NoErr
       /\ r_pc = "attempt2" => Len(r_calls) = 2 /\ r_err2 = NoErr
       /\ r_base.used_fallback => router.used_fallback
       /\ r_kind = "routed" /\ Len(r_calls) = 2 => router.used_fallback
       /\ get_model(router) = router.secondary_model <=> router.used_fallback

-----------------------------------------------------------------------------
\* A ModelRouter object on its own: constructed, then asked should_fallback()
\* and told record_fallback() in any order (model_router.py:35-86)

\* record_fallback() calls made on one router
MaxRecordCalls == 2
\* should_fallback() answers kept for comparison
MaxAsked == 2

\* model names a router is constructed with
RouterModels == {PrimaryModel, SecondaryModel, LANGUAGE_DETECTOR_MODEL}

T_QuotaError == <<"Q","u","o","t","a","E","r","r","o","r">>
Msg_limit == <<"l","i","m","i","t"," ","r","e","a","c","h","e","d">>
Msg_value_text == <<"V","a","l","u","e","E","r","r","o","r",":"," ","b","a","d"," ","a","r","g","u","m","e","n","t">>
Msg_4290 == <<"4","2","9","0"," ","i","t","e","m","s">>

\* a token in the type name only, none anywhere, the text of another error's
\* name, and a token inside a longer number
E_quota_type == MkErr(T_QuotaError, Msg_limit, NoChain)
E_exhausted_type == MkErr(T_ResourceExhausted, Msg_limit, NoChain)
E_value_text == MkErr(T_Exception, Msg_value_text, NoChain)
E_4290 == MkErr(T_ValueError, Msg_4290, NoChain)

\* the exceptions should_fallback() is asked about
AskedErrors == ProducerErrors \cup {E_quota_type, E_exhausted_type, E_value_text, E_4290}

\* router = ModelRouter(primary_model, secondary_model)
ObjectInit ==
    /\ \E primary_model \in RouterModels, secondary_model \in RouterModels :
          m_router = ModelRouterInit(primary_model, secondary_model)
    /\ m_calls = 0
    /\ m_first = m_router
    /\ m_asked = {}
    /\ RouterIdle /\ ConsumerIdle /\ AggregateIdle /\ ReconcileIdle

\* router.record_fallback()
RecordFallback ==
    /\ m_calls < MaxRecordCalls
    /\ m_router' = record_fallback(m_router)
    /\ m_calls' = m_calls + 1
    /\ m_first' = IF m_calls = 0 THEN m_router' ELSE m_first
    /\ UNCHANGED m_asked
    /\ UNCHANGED notObjectVars

\* router.should_fallback(error): reads the error, writes nothing
ShouldFallback ==
    /\ Cardinality(m_asked) < MaxAsked
    /\ \E error \in AskedErrors :
          m_asked' = m_asked \cup {[error |-> error,
                                    answer |-> should_fallback(m_router, error)]}
    /\ UNCHANGED <<m_router, m_calls, m_first>>
    /\ UNCHANGED notObjectVars

ObjectNext ==
    \/ RecordFallback
    \/ ShouldFallback

SpecObject == ObjectInit /\ [][ObjectNext]_vars

\* C12: for any ModelRouter state, calling record_fallback twice yields the same
\* state (used_fallback, last_used_model, primary_model, secondary_model) as
\* calling it once.
C12_RecordFallbackIdempotent ==
    /\ record_fallback(record_fallback(m_router)) = record_fallback(m_router)
    /\ m_calls >= 2 => m_router = m_first

\* A router constructed with two different models was told record_fallback
\* twice: it is on its secondary model, as after the first call.
C12_Witness ==
    /\ m_calls = 2
    /\ m_router = [primary_model |-> PrimaryModel, secondary_model |-> SecondaryModel,
                   last_used_model |-> SecondaryModel, used_fallback |-> TRUE]
    /\ m_first = m_router

\* the fixed vocabulary of the claim
RetryableTokens ==
    {<<"R","E","S","O","U","R","C","E","_","E","X","H","A","U","S","T","E","D">>,
     <<"4","2","9">>,
     <<"Q","U","O","T","A","_","E","X","C","E","E","D","E","D">>,
     <<"R","A","T","E","_","L","I","M","I","T">>,
     <<"T","O","K","E","N","_","L","I","M","I","T">>,
     <<"C","O","N","T","E","X","T","_","L","E","N","G","T","H">>,
     <<"M","A","X","_","T","O","K","E","N","S">>,
     <<"O","U","T","_","O","F","_","T","O","K","E","N","S">>,
     <<"Q","U","O","T","A">>}

\* some token of the vocabulary is a substring of the upper-cased message or of
\* the upper-cased type name
NamesRetryableToken(error) ==
    \E token \in RetryableTokens :
        \/ \E p \in 1..Len(error.msg) : OccursAt(Upper(error.msg), token, p)
        \/ \E p \in 1..Len(error.type) : OccursAt(Upper(error.type), token, p)

\* C13: is_token_quota_error(err) is pure (the same error gets the same answer
\* and the router is as it was) and answers true exactly when a token of the
\* fixed vocabulary is a substring of the upper-cased message or type name;
\* 'RESOURCE_EXHAUSTED: 429' is retryable, 'ValueError: bad argument' is not.
C13_ClassifierPureAndExact ==
    /\ \A a \in m_asked : a.answer = NamesRetryableToken(a.error)
    /\ \A a, b \in m_asked : a.error = b.error => a.answer = b.answer
    /\ \A a \in m_asked : a.error.msg = Msg_res429 => a.answer
    /\ \A a \in m_asked : a.error \in {E_value, E_value_text} => ~a.answer
    /\ m_calls = 0 => m_router = m_first

\* The router was asked about an error whose message holds a token in lower
\* case and about one that only mentions ValueError: yes and no.
C13_Witness ==
    /\ m_asked = {[error |-> E_quota, answer |-> TRUE],
                  [error |-> E_value_text, answer |-> FALSE]}
    /\ m_calls = 0

-----------------------------------------------------------------------------
\* The bounded stream consumers: call_agent_with_retry (scripts/call_agent.py)
\* and AgentEngineClient.review_pr (webhook_service/agent_client.py)

\* inputs of a call
timeout_seconds == 3
max_retries == 2
\* chunks one producer stream yields at most
MaxChunks == 1

\* streaming_complete.wait(timeout=5.0)
POLL_INTERVAL == 5
\* initial_delay: float = 1.0
initial_delay == 1

DigitChars == <<"0","1","2","3","4","5","6","7","8","9">>

\* str(n) of a non-negative int
RECURSIVE Digits(_)
Digits(n) ==
    IF n < 10 THEN <<DigitChars[n + 1]>>
    ELSE Digits(n \div 10) \o <<DigitChars[(n % 10) + 1]>>

MSG_timeout_1 == <<"S","t","r","e","a","m"," ","q","u","e","r","y"," ","t","i","m","e","d"," ","o","u","t"," ","a","f","t","e","r"," ">>
MSG_timeout_2 == <<"s"," ","(","r","e","c","e","i","v","e","d"," ">>
MSG_timeout_3 == <<" ","c","h","u","n","k","s",")">>
MSG_no_chunks == <<"N","o"," ","r","e","s","p","o","n","s","e"," ","c","h","u","n","k","s"," ","r","e","c","e","i","v","e","d"," ","f","r","o","m"," ","a","g","e","n","t"," ","a","f","t","e","r"," ","s","u","c","c","e","s","s","f","u","l"," ","s","t","r","e","a","m"," ","c","o","m","p","l","e","t","i","o","n","."," ","T","h","e"," ","a","g","e","n","t"," ","s","t","r","e","a","m"," ","c","o","m","p","l","e","t","e","d"," ","n","o","r","m","a","l","l","y"," ","b","u","t"," ","p","r","o","d","u","c","e","d"," ","n","o"," ","c","h","u","n","k","s","."," ","T","h","i","s"," ","t","y","p","i","c","a","l","l","y"," ","m","e","a","n","s"," ","t","h","e"," ","a","g","e","n","t"," ","u","p","d","a","t","e","d"," ","s","t","a","t","e"," ","b","u","t"," ","d","i","d","n","'","t"," ","p","r","o","d","u","c","e"," ","s","t","r","e","a","m","a","b","l","e"," ","t","e","x","t"," ","o","u","t","p","u","t","."," ","C","h","e","c","k"," ","A","g","e","n","t"," ","E","n","g","i","n","e"," ","l","o","g","s"," ","a","n","d"," ","v","e","r","i","f","y"," ","t","h","e"," ","p","u","b","l","i","s","h","e","r"," ","a","g","e","n","t"," ","i","n","s","t","r","u","c","t","i","o","n"," ","r","e","q","u","i","r","e","s"," ","t","e","x","t"," ","o","u","t","p","u","t",".">>
MSG_no_chunks_review == <<"N","o"," ","r","e","s","p","o","n","s","e"," ","c","h","u","n","k","s"," ","r","e","c","e","i","v","e","d"," ","f","r","o","m"," ","a","g","e","n","t">>
MSG_call_failed == <<"A","g","e","n","t"," ","E","n","g","i","n","e"," ","c","a","l","l"," ","f","a","i","l","e","d",":"," ">>
MSG_extract_1 == <<"F","a","i","l","e","d"," ","t","o"," ","e","x","t","r","a","c","t"," ","r","e","s","p","o","n","s","e"," ","f","r","o","m"," ">>
MSG_extract_2 == <<" ","c","h","u","n","k","s">>

\* TimeoutError(f"Stream query timed out after {timeout_seconds}s (received {n} chunks)")
TimeoutErrorOf(n) ==
    MkErr(T_TimeoutError,
          MSG_timeout_1 \o Digits(timeout_seconds) \o MSG_timeout_2 \o Digits(n) \o MSG_timeout_3,
          NoChain)

NoChunksError == MkErr(T_Exception, MSG_no_chunks, NoChain)
NoChunksErrorReview == MkErr(T_Exception, MSG_no_chunks_review, NoChain)
ExtractFailedError(n) == MkErr(T_Exception, MSG_extract_1 \o Digits(n) \o MSG_extract_2, NoChain)

\* raise Exception(f"Agent Engine call failed: {e}") from e
AgentEngineCallFailed(e) ==
    MkErr(T_Exception, MSG_call_failed \o e.msg,
          <<[type |-> e.type, msg |-> e.msg]>> \o e.chain)

\* a classifier that recognises no error as resource exhaustion
is_resource_exhausted_error_never(err) == FALSE

is_resource_exhausted_error(err) ==
    Contains(err.msg, RESOURCE_EXHAUSTED) \/ Contains(err.msg, S_429)

\* Chunks of a stream, as review_pr's extraction (attribute access) sees them.
S_Review_summary == <<"R","e","v","i","e","w"," ","s","u","m","m","a","r","y">>
S_LGTM == <<"L","G","T","M">>
Key_markdown_review == <<"m","a","r","k","d","o","w","n","_","r","e","v","i","e","w">>
S_output == <<"o","u","t","p","u","t">>
S_review == <<"r","e","v","i","e","w">>

ContentOf(text) == Obj(Key_parts :> List(<<Obj(Key_text :> Str(text))>>))
ActionsOf(state_delta) == Obj(Key_state_delta :> state_delta)

\* Object(content=Object(parts=[Object(text="Review summary")]))
Chunk_text == Obj(Key_content :> ContentOf(S_Review_summary))

\* the chunk of test_agent_client.py's mock_agent_engine:
\* content.parts = [Object(text="Review summary")],
\* actions.state_delta = {"code_review_output": {"markdown_review": "LGTM"}}
Chunk_markdown_review ==
    Obj((Key_content :> ContentOf(S_Review_summary))
        @@ (Key_actions :> ActionsOf(Dict(Key_code_review_output :>
                Dict(Key_markdown_review :> Str(S_LGTM))))))

\* actions.state_delta = {"code_review_output": {"summary": "LGTM", "overall_status": "APPROVED"}}
Chunk_review ==
    Obj(Key_actions :> ActionsOf(Dict(Key_code_review_output :>
            Dict((Key_summary :> Str(S_LGTM)) @@ (Key_overall_status :> Str(S_APPROVED))))))

\* actions.state_delta = {"final_review": {"markdown_review": "LGTM"}}
Chunk_other_key ==
    Obj(Key_actions :> ActionsOf(Dict((<<"f","i","n","a","l","_","r","e","v","i","e","w">>) :>
            Dict(Key_markdown_review :> Str(S_LGTM)))))

\* Object(): neither content nor actions
Chunk_empty == Obj(<<>>)

\* {"content": {"parts": [{"text": "Review summary"}]}}, what call_agent's stream yields
Chunk_dict_text ==
    Dict(Key_content :> Dict(Key_parts :> List(<<Dict(Key_text :> Str(S_Review_summary))>>)))

ReviewChunks == {Chunk_text, Chunk_markdown_review, Chunk_review, Chunk_other_key, Chunk_empty}

\* the exceptions agent.stream_query may raise in the worker
StreamErrors == {E_429, E_value}

\* the call has not ended: what a leaked worker does afterwards is not observed
CallerActive == c_pc \in {"wait", "backoff"}

NewWorker == [st |-> "running", produced |-> 0]

\* lines 137-146 and 205-206: fresh buffer, counter, flag and error slot, worker started
StartAttempt ==
    /\ c_buf' = <<>>
    /\ c_count' = 0
    /\ c_complete' = FALSE
    /\ c_error' = NoErr
    /\ c_workers' = Append(c_workers, NewWorker)
    /\ c_now' = 0
    /\ c_wait_until' = 0
    /\ c_pc' = "wait"

CallAgentStart ==
    /\ c_pc = "idle"
    /\ c_kind' = "call_agent"
    /\ c_attempt' = 0
    /\ c_delay' = initial_delay
    /\ StartAttempt
    /\ UNCHANGED <<c_result, c_value, c_raised, c_log>>
    /\ UNCHANGED notConsumerVars

ReviewStart ==
    /\ c_pc = "idle"
    /\ c_kind' = "review_pr"
    /\ c_attempt' = 0
    /\ c_delay' = 0
    /\ StartAttempt
    /\ UNCHANGED <<c_result, c_value, c_raised, c_log>>
    /\ UNCHANGED notConsumerVars

\* stream_worker: `for chunk in stream_iterator:` body. The worker's closure reads
\* the enclosing function's variables, so it writes the buffer and counter that
\* are current when it runs.
WorkerChunk ==
    /\ CallerActive
    /\ \E w \in DOMAIN c_workers :
          /\ c_workers[w].st = "running"
          /\ c_workers[w].produced < MaxChunks
          /\ \E chunk \in (IF c_kind = "review_pr" THEN ReviewChunks ELSE {Chunk_dict_text}) :
                c_buf' = Append(c_buf, [by |-> w, chunk |-> chunk])
          /\ c_count' = c_count + 1
          /\ c_workers' = [c_workers EXCEPT ![w].produced = @ + 1]
    /\ UNCHANGED <<c_kind, c_pc, c_attempt, c_delay, c_now, c_wait_until, c_complete,
                   c_error, c_result, c_value, c_raised, c_log>>
    /\ UNCHANGED notConsumerVars

\* stream_worker: the stream ended; finally: streaming_complete.set()
WorkerFinish ==
    /\ CallerActive
    /\ \E w \in DOMAIN c_workers :
          /\ c_workers[w].st = "running"
          /\ c_workers' = [c_workers EXCEPT ![w].st = "finished"]
    /\ c_complete' = TRUE
    /\ UNCHANGED <<c_kind, c_pc, c_attempt, c_delay, c_now, c_wait_until, c_buf, c_count,
                   c_error, c_result, c_value, c_raised, c_log>>
    /\ UNCHANGED notConsumerVars

\* stream_worker: except Exception as e: stream_error[0] = e; finally: set()
WorkerError ==
    /\ CallerActive
    /\ \E w \in DOMAIN c_workers :
          /\ c_workers[w].st = "running"
          /\ c_workers' = [c_workers EXCEPT ![w].st = "finished"]
    /\ \E e \in StreamErrors : c_error' = e
    /\ c_complete' = TRUE
    /\ UNCHANGED <<c_kind, c_pc, c_attempt, c_delay, c_now, c_wait_until, c_buf, c_count,
                   c_result, c_value, c_raised, c_log>>
    /\ UNCHANGED notConsumerVars

\* a second passes while the caller is blocked in streaming_complete.wait
Tick ==
    /\ c_pc = "wait"
    /\ ~c_complete
    /\ c_now < c_wait_until
    /\ c_now' = c_now + 1
    /\ UNCHANGED <<c_kind, c_pc, c_attempt, c_delay, c_wait_until, c_buf, c_count,
                   c_complete, c_error, c_workers, c_result, c_value, c_raised, c_log>>
    /\ UNCHANGED notConsumerVars

Woken == c_pc = "wait" /\ (c_complete \/ c_now >= c_wait_until)

\* how an attempt ended: the exception it ended with, NoErr when it returned
LogEntry(outcome, e) ==
    [attempt |-> c_attempt, outcome |-> outcome, count |-> c_count, error |-> e]

\* call_agent.py:296-311: except Exception as e
CallAgentHandle(e, outcome) ==
    /\ c_log' = Append(c_log, LogEntry(outcome, e))
    /\ IF is_resource_exhausted_error(e)
       THEN /\ c_pc' = "returned" /\ c_result' = "resource_exhausted_response"
            /\ UNCHANGED <<c_value, c_raised>>
       ELSE IF c_attempt < max_retries - 1
       THEN c_pc' = "backoff" /\ UNCHANGED <<c_result, c_value, c_raised>>
       ELSE c_pc' = "raised" /\ c_raised' = e /\ UNCHANGED <<c_result, c_value>>

\* call_agent.py:210-294: one round of the monitor loop, and what follows the loop
CallAgentPoll ==
    /\ c_kind = "call_agent" /\ Woken
    /\ IF ~c_complete
       THEN IF c_now > timeout_seconds
            THEN /\ CallAgentHandle(TimeoutErrorOf(c_count), "timeout")
                 /\ UNCHANGED c_wait_until
            ELSE /\ c_wait_until' = c_now + POLL_INTERVAL
                 /\ UNCHANGED <<c_pc, c_result, c_value, c_raised, c_log>>
       ELSE /\ UNCHANGED c_wait_until
            /\ IF c_error # NoErr
               THEN CallAgentHandle(c_error, "stream_error")
               ELSE IF c_buf = <<>>
               THEN CallAgentHandle(NoChunksError, "no_chunks")
               ELSE /\ c_pc' = "returned"
                    /\ c_result' = "coerce_review_output"
                    /\ c_log' = Append(c_log, LogEntry("ok", NoErr))
                    /\ UNCHANGED <<c_value, c_raised>>
    /\ UNCHANGED <<c_kind, c_attempt, c_delay, c_now, c_buf, c_count, c_complete,
                   c_error, c_workers>>
    /\ UNCHANGED notConsumerVars

\* call_agent.py:305-308 and 122-206: time.sleep(delay); delay *= 2; next attempt
CallAgentRetry ==
    /\ c_kind = "call_agent" /\ c_pc = "backoff"
    /\ c_delay' = c_delay * 2
    /\ c_attempt' = c_attempt + 1
    /\ StartAttempt
    /\ UNCHANGED <<c_kind, c_result, c_value, c_raised, c_log>>
    /\ UNCHANGED notConsumerVars

\* agent_client.py:196-198: except Exception as e
ReviewHandle(e, outcome) ==
    /\ c_log' = Append(c_log, LogEntry(outcome, e))
    /\ c_pc' = "raised"
    /\ c_raised' = AgentEngineCallFailed(e)
    /\ UNCHANGED <<c_result, c_value>>

\* response_chunks, without the model's note of who appended each chunk
ChunksOf(buf) == [i \in DOMAIN buf |-> buf[i].chunk]

\* hasattr(v, name) and v.name
AttrTruthy(v, name) == v.k = "obj" /\ name \in DOMAIN v.d /\ Truthy(v.d[name])

TextOfPart(part) == IF AttrTruthy(part, Key_text) THEN <<part.d[Key_text].s>> ELSE <<>>

RECURSIVE TextsOfParts(_)
TextsOfParts(parts) ==
    IF parts = <<>> THEN <<>>
    ELSE TextOfPart(Head(parts)) \o TextsOfParts(Tail(parts))

\* agent_client.py:128-133: the texts one chunk adds to review_text_parts
TextsOfChunk(chunk) ==
    IF AttrTruthy(chunk, Key_content) /\ AttrTruthy(chunk.d[Key_content], Key_parts)
    THEN TextsOfParts(chunk.d[Key_content].d[Key_parts].l)
    ELSE <<>>

\* agent_client.py:135-141: what one chunk adds to review_state_deltas
DeltaOfChunk(chunk) ==
    IF AttrTruthy(chunk, Key_actions) /\ AttrTruthy(chunk.d[Key_actions], Key_state_delta)
    THEN chunk.d[Key_actions].d[Key_state_delta]
    ELSE EmptyDict

RECURSIVE review_text_parts(_)
review_text_parts(chunks) ==
    IF chunks = <<>> THEN <<>>
    ELSE TextsOfChunk(Head(chunks)) \o review_text_parts(Tail(chunks))

RECURSIVE review_state_deltas_from(_, _)
review_state_deltas_from(merged, chunks) ==
    IF chunks = <<>> THEN merged
    ELSE review_state_deltas_from(Update(merged, DeltaOfChunk(Head(chunks))), Tail(chunks))

review_state_deltas(chunks) == review_state_deltas_from(EmptyDict, chunks)

\* agent_client.py:149-152: the condition of the last-resort key search
LooksLikeOutput(deltas, key) ==
    /\ Contains(Lower(key), S_output) \/ Contains(Lower(key), S_review)
    /\ IsDict(deltas.d[key]) \/ IsList(deltas.d[key])

\* agent_client.py:143-154. The search takes the first key in insertion order;
\* the chunks here put at most one such key in the merged deltas.
structured_output_of(deltas) ==
    IF Has(deltas, Key_code_review_output) THEN deltas.d[Key_code_review_output]
    ELSE IF Has(deltas, Key_formatted_output) THEN deltas.d[Key_formatted_output]
    ELSE IF \E key \in DOMAIN deltas.d : LooksLikeOutput(deltas, key)
    THEN deltas.d[CHOOSE key \in DOMAIN deltas.d : LooksLikeOutput(deltas, key)]
    ELSE None

\* agent_client.py:157-164: the dict branch returns structured_output
UsesStructured(structured_output) ==
    /\ Truthy(structured_output)
    /\ IsDict(structured_output)
    /\ Has(structured_output, Key_overall_status) \/ Has(structured_output, Key_summary)

\* agent_client.py:165-171: the str branch returns the parsed dict
UsesParsed(structured_output, parsed) ==
    /\ Truthy(structured_output)
    /\ IsStr(structured_output)
    /\ parsed.ok /\ IsDict(parsed.v)

\* agent_client.py:176-190: the dict wrapped around the combined text
TextResponse(combined_text) ==
    Dict((Key_summary :> Str(combined_text))
         @@ (Key_inline_comments :> EmptyList)
         @@ (Key_overall_status :> Str(S_COMMENT))
         @@ (Key_metrics :>
               Dict((Key_files_reviewed :> Num(0)) @@ (Key_issues_found :> Num(0))
                    @@ (Key_critical_issues :> Num(0)) @@ (Key_warnings :> Num(0))
                    @@ (Key_suggestions :> Num(0)) @@ (Key_style_score :> Num(0)))))

\* agent_client.py:156-195, given the structured output and the combined text
ReviewOutcome(structured_output, combined_text) ==
    IF UsesStructured(structured_output)
    THEN [tag |-> "structured_output", value |-> structured_output]
    ELSE IF UsesParsed(structured_output, json_loads(structured_output.s))
    THEN [tag |-> "structured_output", value |-> json_loads(structured_output.s).v]
    ELSE IF combined_text # <<>>
    THEN [tag |-> "text_response", value |-> TextResponse(combined_text)]
    ELSE [tag |-> "raise", value |-> None]

\* agent_client.py:122-195 over response_chunks (all_text_parts, all_state_deltas)
ExtractReview(chunks) ==
    ReviewOutcome(structured_output_of(review_state_deltas(chunks)),
                  Strip(Join(<<"\n">>, review_text_parts(chunks))))

\* agent_client.py:101-194: one round of the monitor loop, and what follows the loop
ReviewPoll ==
    /\ c_kind = "review_pr" /\ Woken
    /\ IF ~c_complete
       THEN IF c_now > timeout_seconds
            THEN /\ ReviewHandle(TimeoutErrorOf(c_count), "timeout")
                 /\ UNCHANGED c_wait_until
            ELSE /\ c_wait_until' = c_now + POLL_INTERVAL
                 /\ UNCHANGED <<c_pc, c_result, c_value, c_raised, c_log>>
       ELSE /\ UNCHANGED c_wait_until
            /\ IF c_error # NoErr
               THEN ReviewHandle(c_error, "stream_error")
               ELSE IF c_buf = <<>>
               THEN ReviewHandle(NoChunksErrorReview, "no_chunks")
               ELSE IF ExtractReview(ChunksOf(c_buf)).tag # "raise"
               THEN /\ c_pc' = "returned"
                    /\ c_result' = ExtractReview(ChunksOf(c_buf)).tag
                    /\ c_value' = ExtractReview(ChunksOf(c_buf)).value
                    /\ c_log' = Append(c_log, LogEntry("ok", NoErr))
                    /\ UNCHANGED c_raised
               ELSE ReviewHandle(ExtractFailedError(Len(c_buf)), "no_output")
    /\ UNCHANGED <<c_kind, c_attempt, c_delay, c_now, c_buf, c_count, c_complete,
                   c_error, c_workers>>
    /\ UNCHANGED notConsumerVars

ConsumerInit ==
    ConsumerIdle /\ RouterIdle /\ AggregateIdle /\ ReconcileIdle /\ ObjectIdle

ConsumerNext ==
    \/ CallAgentStart
    \/ ReviewStart
    \/ WorkerChunk
    \/ WorkerFinish
    \/ WorkerError
    \/ Tick
    \/ CallAgentPoll
    \/ CallAgentRetry
    \/ ReviewPoll

SpecConsumer == ConsumerInit /\ [][ConsumerNext]_vars

\* the steps of the calling thread: at most one of them is enabled in a state
CallerStep == Tick \/ CallAgentPoll \/ ReviewPoll \/ CallAgentRetry

\* The calling thread keeps running: time passes while it is blocked in
\* streaming_complete.wait(timeout=5.0), the wait returns, and
\* time.sleep(delay) returns. Nothing is assumed of the workers.
ConsumerFairness == WF_vars(CallerStep)

SpecConsumerFair == SpecConsumer /\ ConsumerFairness

\* C4: when the wait for a producer that has not finished ends by the
\* wall-clock timeout and the call ends by raising, the caller receives a
\* TimeoutError (not a generic error) whose message carries the number of
\* chunks received so far.
C4_TimeoutIsTimeoutError ==
    (/\ c_pc = "raised"
     /\ c_log # <<>> /\ c_log[Len(c_log)].outcome = "timeout")
    => /\ c_raised.type = T_TimeoutError
       /\ Contains(c_raised.msg,
                   MSG_timeout_2 \o Digits(c_log[Len(c_log)].count) \o MSG_timeout_3)

\* the worker started for the attempt in progress
OwnWorker == c_workers[c_attempt + 1]

\* C16: in call_agent_with_retry and review_pr, the buffer, the counter, the
\* error slot and the completion flag of the attempt in progress are written
\* only by the worker started for that attempt (also while the worker of an
\* earlier, timed-out attempt is still running), and the caller reads the
\* buffer only after that worker has signalled completion.
C16_SingleWriterPerAttempt ==
    c_pc # "idle"
    => /\ \A i \in DOMAIN c_buf : c_buf[i].by = c_attempt + 1
       /\ c_count = OwnWorker.produced
       /\ (c_complete \/ c_error # NoErr) => OwnWorker.st = "finished"
       /\ c_result \in {"coerce_review_output", "structured_output", "text_response"}
             => OwnWorker.st = "finished"

\* C17: once the wall-clock timeout has fired in an attempt, that attempt is
\* the last one, the call has ended by raising, and what it raised is the
\* TimeoutError carrying the number of chunks received: no further attempt is
\* started and nothing is returned instead.
C17_TimeoutIsFatal ==
    \A i \in DOMAIN c_log :
        c_log[i].outcome = "timeout"
        => /\ i = Len(c_log)
           /\ c_attempt = c_log[i].attempt
           /\ c_pc = "raised"
           /\ c_raised = TimeoutErrorOf(c_log[i].count)

\* C21: a call whose last attempt ran for more than timeout_seconds has ended
\* with the timeout error, whenever the worker completed relative to the
\* caller's polls: it never returns the events as a success (or ends in any
\* other way).
C21_NoSuccessAfterTimeout ==
    (c_pc \in {"returned", "raised"} /\ c_now > timeout_seconds)
    => c_log[Len(c_log)].outcome = "timeout"

\* the message of the error names resource exhaustion
NamesQuota(e) == Contains(e.msg, RESOURCE_EXHAUSTED) \/ Contains(e.msg, S_429)

\* the attempts of call_agent_with_retry so far: one worker per attempt started,
\* one log entry per attempt ended, at most max_retries of them; an attempt
\* that was followed by another ended with an error that does not name
\* resource exhaustion; an attempt whose error names it is the last one and
\* the call returned the quota-failure result; a raising call raises the
\* error of attempt max_retries
AttemptsAsStated ==
    c_kind = "call_agent"
    => /\ Len(c_workers) = c_attempt + 1
       /\ Len(c_workers) <= max_retries
       /\ Len(c_log) = IF c_pc = "wait" THEN c_attempt ELSE c_attempt + 1
       /\ \A i \in DOMAIN c_log : c_log[i].attempt = i - 1
       /\ \A i \in 1..c_attempt :
              c_log[i].error # NoErr /\ ~NamesQuota(c_log[i].error)
       /\ \A i \in DOMAIN c_log :
              (c_log[i].error # NoErr /\ NamesQuota(c_log[i].error))
              => /\ i = Len(c_log)
                 /\ c_pc = "returned"
                 /\ c_result = "resource_exhausted_response"
       /\ c_pc = "backoff" => c_attempt < max_retries - 1
       /\ c_pc = "raised"
             => /\ c_attempt = max_retries - 1
                /\ c_log[Len(c_log)].error # NoErr
                /\ c_raised = c_log[Len(c_log)].error
       /\ (c_pc = "returned" /\ c_log[Len(c_log)].error # NoErr)
             => NamesQuota(c_log[Len(c_log)].error)

\* C30: call_agent_with_retry terminates after starting at most max_retries
\* attempts: a new attempt is started only after the previous attempt ended
\* with an error that is not a resource-exhaustion error; an attempt that
\* fails with a resource-exhaustion error (message containing
\* RESOURCE_EXHAUSTED or 429) is never retried and the call returns the
\* quota-failure result at once; after the last failed attempt the call
\* raises that attempt's error.
\* (a call never goes back to c_kind = "none", so the second conjunct says that
\* every call of call_agent_with_retry ends by returning or raising)
C30_BoundedRetries ==
    /\ []AttemptsAsStated
    /\ []<>(c_kind # "call_agent" \/ c_pc \in {"returned", "raised"})

\* every attempt was used and failed without naming resource exhaustion: the
\* call raised the last attempt's error
C30_Witness ==
    /\ c_kind = "call_agent" /\ c_pc = "raised"
    /\ Len(c_workers) = max_retries /\ Len(c_log) = max_retries
    /\ c_raised = c_log[max_retries].error

\* a retried call met a resource-exhaustion error in a later attempt and
\* returned the quota-failure result
C30_WitnessQuota ==
    /\ c_kind = "call_agent" /\ c_pc = "returned"
    /\ c_attempt > 0
    /\ c_result = "resource_exhausted_response"
    /\ NamesQuota(c_log[Len(c_log)].error)

\* the code_review_output entry of the merged state deltas of the chunks received
MergedReviewOutput == Get(review_state_deltas(ChunksOf(c_buf)), Key_code_review_output)

\* C14: when review_pr's stream completes without error and the merged state
\* deltas hold a non-empty mapping under code_review_output, review_pr
\* returns that mapping itself (with its own keys, such as markdown_review)
\* and not the dict wrapped around the chunks' text.
C14_ReturnsCodeReviewOutput ==
    (/\ c_kind = "review_pr" /\ c_pc \in {"returned", "raised"}
     /\ c_log # <<>> /\ c_log[Len(c_log)].outcome \in {"ok", "no_output"}
     /\ IsDict(MergedReviewOutput) /\ Truthy(MergedReviewOutput))
    => /\ c_pc = "returned"
       /\ c_value = MergedReviewOutput

-----------------------------------------------------------------------------
\* stream_extractor.py: text-to-JSON extraction

\* _strip_json_fence (lines 22-39). Positions are 1-based: Find/RFind give
\* find()+1 / rfind()+1, so s[first_newline + 1 : closing] is
\* SubSeq(s, first_newline + 1, closing - 1).
strip_json_fence(text) ==
    LET s == Strip(text)
        first_newline == Find(s, <<"\n">>)
        fence_header == Lower(Strip(SubSeq(s, 1, first_newline - 1)))
        closing == RFind(s, FENCE)
    IN IF ~StartsWith(s, FENCE) THEN s
       ELSE IF first_newline = 0 THEN s
       ELSE IF fence_header \notin {FENCE_json, FENCE} THEN s
       ELSE IF closing <= first_newline THEN s
       ELSE Strip(SubSeq(s, first_newline + 1, closing - 1))

\* isinstance(parsed, dict) and ("summary" in parsed or "overall_status" in
\* parsed or "metrics" in parsed)   (lines 55-57, 80-84, 101-103)
HasSignalField(parsed) ==
    /\ IsDict(parsed)
    /\ \/ Has(parsed, Key_summary)
       \/ Has(parsed, Key_overall_status)
       \/ Has(parsed, Key_metrics)

SignalObject(r) == IF r.ok /\ HasSignalField(r.v) THEN r.v ELSE None

\* try: json.loads(..) and the signal-field test; None when either fails
ParseSignalObject(s) == SignalObject(json_loads(s))

\* the position of the first brace of text at or after i, 0 if there is none
NextBrace(text, i) ==
    IF \E j \in i..Len(text) : text[j] \in {"{", "}"}
    THEN CHOOSE j \in i..Len(text) :
            text[j] \in {"{", "}"} /\ \A m \in i..(j - 1) : text[m] \notin {"{", "}"}
    ELSE 0

\* lines 78-87: a span that parses to a signal object becomes a candidate,
\* kept with Python's 0-based position of its closing brace
WithCandidate(json_candidates, pos, parsed) ==
    IF parsed # None
    THEN Append(json_candidates, [pos |-> pos, parsed |-> parsed])
    ELSE json_candidates

\* The brace scan (lines 64-90), going from brace to brace as the other
\* characters change nothing: i is the 1-based position of `char`, start = 0
\* stands for Python's -1, depth may go below zero.
RECURSIVE BraceScan(_, _, _, _, _)
BraceScan(text, from, depth, start, json_candidates) ==
    LET i == NextBrace(text, from)
    IN IF i = 0 THEN json_candidates
       ELSE IF text[i] = "{"
            THEN BraceScan(text, i + 1, depth + 1, IF depth = 0 THEN i ELSE start,
                           json_candidates)
       ELSE IF depth - 1 = 0 /\ start # 0
            THEN BraceScan(text, i + 1, 0, 0,
                           WithCandidate(json_candidates, i - 1,
                                         ParseSignalObject(SubSeq(text, start, i))))
       ELSE BraceScan(text, i + 1, depth - 1, start, json_candidates)

\* key=lambda x: (x[0], -len(x[1])) compared as Python compares tuples
SortKeyLeq(a, b) ==
    \/ a.pos < b.pos
    \/ a.pos = b.pos /\ (0 - PyLen(a.parsed)) <= (0 - PyLen(b.parsed))

\* json_candidates.sort(key=...); json_candidates[-1][1]   (lines 95-96)
LastOfSorted(json_candidates) ==
    json_candidates[CHOOSE j \in DOMAIN json_candidates :
                        \A m \in DOMAIN json_candidates :
                            SortKeyLeq(json_candidates[m], json_candidates[j])].parsed

\* _extract_json_from_text (lines 42-108)
extract_json_from_text(text) ==
    IF text = <<>> THEN None
    ELSE LET stripped == strip_json_fence(text)
             fenced == IF stripped # text THEN ParseSignalObject(stripped) ELSE None
             json_candidates == BraceScan(text, 1, 0, 0, <<>>)
         IN IF fenced # None THEN fenced
            ELSE IF json_candidates # <<>> THEN LastOfSorted(json_candidates)
            ELSE ParseSignalObject(Strip(text))

-----------------------------------------------------------------------------
\* stream_extractor.py: model usage and performance metrics

\* lines 278-285: "Gemini 2.5 Pro" keeps its version number as it is
KeepVersionNumber(formatted) ==
    LET parts == SplitWords(formatted)
    IN IF /\ Contains(Lower(formatted), S_gemini)
          /\ Len(parts) >= 2
          /\ IsDigit(RemoveChar(parts[2], "."))
       THEN parts[1] \o <<" ">> \o parts[2] \o <<" ">>
            \o Join(<<" ">>, SubSeq(parts, 3, Len(parts)))
       ELSE formatted

\* _format_model_name (lines 255-285)
format_model_name(model_path) ==
    IF model_path = <<>> THEN S_Unknown
    ELSE LET segments == IF Contains(model_path, S_models_sep)
                         THEN Split(model_path, S_models_sep)
                         ELSE Split(model_path, <<"/">>)
             model_name == ReplaceChar(ReplaceChar(segments[Len(segments)], "-", " "),
                                       "_", " ")
             words == SplitWords(model_name)
         IN KeepVersionNumber(
                Join(<<" ">>, [i \in DOMAIN words |-> Capitalize(words[i])]))

\* _get_default_model_for_agent (lines 288-303)
get_default_model_for_agent(agent_name) ==
    LET agent_lower == Lower(agent_name)
    IN IF Contains(agent_lower, W_orchestrator) THEN M_Codestral
       ELSE IF Contains(agent_lower, W_publisher) THEN M_Codestral
       ELSE IF Contains(agent_lower, W_analyzer) \/ Contains(agent_lower, W_reviewer)
            THEN M_Gemini25Pro
       ELSE IF Contains(agent_lower, W_python) \/ Contains(agent_lower, W_typescript)
            THEN M_Gemini25Pro
       ELSE M_Gemini25Pro

\* _estimate_token_usage (lines 306-322)
estimate_token_usage(text) ==
    LET estimated_tokens == Len(text) \div 4
        input_tokens == estimated_tokens \div 3
    IN [input_tokens |-> input_tokens, output_tokens |-> estimated_tokens - input_tokens]

\* _estimate_cost (lines 325-351). The float of USD is kept as an integer count
\* of 10^-8 USD: $1.25 and $5.00 per million tokens are 125 and 500 per token.
estimate_cost(input_tokens, output_tokens, model_name) ==
    IF Contains(Lower(model_name), S_gemini)
    THEN input_tokens * 125 + output_tokens * 500
    ELSE 0

\* What `for x in v` iterates over; non-iterable values raise TypeError
Iterable(v) == v.k \in {"list", "str", "dict"}

\* the dict elements of model_fallbacks, in order (lines 413-414)
FallbackInfos(model_fallbacks) ==
    IF IsList(model_fallbacks) THEN SelectSeq(model_fallbacks.l, IsDict) ELSE <<>>

\* {"primary": .., "fallback": .., "used": fallback}   (lines 420-424)
AgentEntry(primary, fallback) ==
    Dict((Key_primary :> Str(primary)) @@ (Key_fallback :> Str(fallback))
         @@ (Key_used :> Str(fallback)))

\* {"primary": default, "fallback": "", "used": default}   (lines 444-449,
\* 455-460)
DefaultEntry(agent_name) ==
    Dict((Key_primary :> Str(get_default_model_for_agent(agent_name)))
         @@ (Key_fallback :> Str(<<>>))
         @@ (Key_used :> Str(get_default_model_for_agent(agent_name))))

\* lines 413-425: agents_info after the loop over model_fallbacks
RECURSIVE AgentsOfFallbacks(_, _)
AgentsOfFallbacks(infos, agents_info) ==
    IF infos = <<>> THEN agents_info
    ELSE AgentsOfFallbacks(Tail(infos),
            Put(agents_info, GetDefault(Head(infos), Key_agent, Str(S_Unknown)).s,
                AgentEntry(
                    format_model_name(GetDefault(Head(infos), Key_primary, Str(<<>>)).s),
                    format_model_name(GetDefault(Head(infos), Key_fallback, Str(<<>>)).s))))

\* line 425: f"{agent_name} ({_format_model_name(fallback)})"
FallbackLabel(fallback_info) ==
    Str(GetDefault(fallback_info, Key_agent, Str(S_Unknown)).s \o <<" ", "(">>
        \o format_model_name(GetDefault(fallback_info, Key_fallback, Str(<<>>)).s)
        \o <<")">>)

\* lines 429-439: the agents inferred from the keys of the state
PotentialAgents(merged_state) ==
    {IF Contains(Lower(key), W_python) THEN A_PythonCodeAnalyzer
                                       ELSE A_TypeScriptCodeAnalyzer :
        key \in {k \in DOMAIN merged_state.d :
                    Contains(Lower(k), W_python) \/ Contains(Lower(k), W_typescript)}}

\* agents_info[name] = default entry for every name of `names` not yet present
AddDefaults(agents_info, names) ==
    Dict([a \in (DOMAIN agents_info.d) \cup names |->
            IF a \in DOMAIN agents_info.d THEN agents_info.d[a] ELSE DefaultEntry(a)])

\* lines 452-464: the orchestrator and the publisher are added when the state
\* holds an output
WithOutputAgents(merged_state, agents_info) ==
    IF Truthy(Or(Get(merged_state, Key_code_review_output),
                 Get(merged_state, Key_formatted_output)))
    THEN AddDefaults(agents_info, {A_CodeReviewOrchestrator, A_ReviewPublisher})
    ELSE agents_info

\* lines 413-466 once model_fallbacks has been iterated
UsageOfInfos(merged_state, infos) ==
    Dict((Key_agents :>
            WithOutputAgents(merged_state,
                AddDefaults(AgentsOfFallbacks(infos, EmptyDict),
                            PotentialAgents(merged_state))))
         @@ (Key_fallbacks_used :> List([i \in DOMAIN infos |-> FallbackLabel(infos[i])]))
         @@ (Key_used_fallback :> Bool(infos # <<>>)))

\* _extract_model_usage (lines 403-466); `for fallback_info in model_fallbacks`
\* raises TypeError on a value that cannot be iterated
extract_model_usage(merged_state) ==
    LET model_fallbacks == GetDefault(merged_state, Key_model_fallbacks, EmptyList)
    IN IF ~Iterable(model_fallbacks) THEN Raised(T_TypeError)
       ELSE UsageOfInfos(merged_state, FallbackInfos(model_fallbacks))

\* lines 376-389: agents_count
AgentsCount(merged_state, model_fallbacks) ==
    IF PyLen(model_fallbacks) # 0 THEN PyLen(model_fallbacks)
    ELSE LET n == Cardinality({k \in DOMAIN merged_state.d :
                        \/ Contains(Lower(k), W_python)
                        \/ Contains(Lower(k), W_typescript)
                        \/ Contains(Lower(k), W_orchestrator)
                        \/ Contains(Lower(k), W_publisher)})
         IN IF n > 2 THEN n ELSE 2

\* _extract_performance_metrics (lines 354-400)
extract_performance_metrics(combined_text, merged_state) ==
    LET perf_metrics == GetDefault(merged_state, Key_performance_metrics, EmptyDict)
        duration == GetDefault(perf_metrics, Key_review_duration_seconds, Num(0))
        chunks == GetDefault(perf_metrics, Key_chunks_received, Num(0))
        tokens == estimate_token_usage(combined_text)
        model_fallbacks == GetDefault(merged_state, Key_model_fallbacks, EmptyList)
        primary_model ==
            IF Truthy(model_fallbacks) /\ IsList(model_fallbacks)
               /\ IsDict(model_fallbacks.l[1])
            THEN GetDefault(model_fallbacks.l[1], Key_primary, Str(S_gemini_25_pro)).s
            ELSE S_gemini_25_pro
    IN IF ~IsDict(perf_metrics) THEN Raised(T_AttributeError)
       ELSE IF Truthy(model_fallbacks) /\ IsDict(model_fallbacks) THEN Raised(T_KeyError)
       ELSE IF ~Iterable(model_fallbacks) THEN Raised(T_TypeError)
       ELSE Dict((Key_review_duration_seconds :> duration)
                 @@ (Key_tokens_used :> Num(tokens.input_tokens + tokens.output_tokens))
                 @@ (Key_input_tokens :> Num(tokens.input_tokens))
                 @@ (Key_output_tokens :> Num(tokens.output_tokens))
                 @@ (Key_estimated_cost_usd :>
                        Num(estimate_cost(tokens.input_tokens, tokens.output_tokens,
                                          primary_model)))
                 @@ (Key_agents_used :> Num(AgentsCount(merged_state, model_fallbacks)))
                 @@ (Key_tool_calls :> Num(0))
                 @@ (Key_chunks_received :> chunks))

-----------------------------------------------------------------------------
\* stream_extractor.py: coerce_review_output (lines 469-619)

\* the default metrics block (lines 492-499, 520-527, 564-571, 588-595, 609-616)
DefaultMetrics ==
    Dict((Key_files_reviewed :> Num(0)) @@ (Key_issues_found :> Num(0))
         @@ (Key_critical_issues :> Num(0)) @@ (Key_warnings :> Num(0))
         @@ (Key_suggestions :> Num(0)) @@ (Key_style_score :> Num(0)))

\* lines 481-483, with the operands of `or` swapped
state_lookup_formatted_first(merged_state) ==
    Or(Get(merged_state, Key_formatted_output), Get(merged_state, Key_code_review_output))

\* lines 481-483: merged_state.get("code_review_output") or
\* merged_state.get("formatted_output")
state_lookup(merged_state) ==
    Or(Get(merged_state, Key_code_review_output), Get(merged_state, Key_formatted_output))

\* lines 488-489, 516-517: if not d.get("summary") and combined_text
BackfillSummary(d, combined_text) ==
    IF ~Truthy(Get(d, Key_summary)) /\ combined_text # <<>>
    THEN Put(d, Key_summary, Str(combined_text))
    ELSE d

\* lines 551-561: the summary of an object found in the text
BackfillFromText(parsed, combined_text) ==
    LET json_start == RFind(combined_text, <<"{">>)
        potential_summary == Strip(SubSeq(combined_text, 1, json_start - 1))
    IN IF ~Truthy(Get(parsed, Key_summary)) /\ combined_text # <<>>
       THEN IF json_start > 1 /\ potential_summary # <<>> /\ Len(potential_summary) > 20
            THEN Put(parsed, Key_summary, Str(potential_summary))
            ELSE Put(parsed, Key_summary, Str(combined_text))
       ELSE parsed

\* d[key] = value, unless computing the value raised
PutOrRaise(d, key, value) ==
    IF IsRaised(value) THEN [obj |-> d, exc |-> value]
    ELSE [obj |-> Put(d, key, value), exc |-> None]

\* lines 490-499, 518-527, 562-571: if "metrics" not in d
FillMetrics(d) == IF Has(d, Key_metrics) THEN d ELSE Put(d, Key_metrics, DefaultMetrics)

\* lines 501-503, 529-531, 573-575: if "model_usage" not in d
FillModelUsage(d, merged_state) ==
    IF Has(d, Key_model_usage) THEN [obj |-> d, exc |-> None]
    ELSE PutOrRaise(d, Key_model_usage, extract_model_usage(merged_state))

\* lines 504-507, 532-535, 576-579: if "performance" not in d
FillPerformance(f, combined_text, merged_state) ==
    IF f.exc # None \/ Has(f.obj, Key_performance) THEN f
    ELSE PutOrRaise(f.obj, Key_performance,
                    extract_performance_metrics(combined_text, merged_state))

\* lines 490-507, 518-535, 562-579: the three "if key not in d" blocks, in
\* order. obj is the dict as far as it was filled, exc the exception that
\* stopped the filling (None if none).
FillMissing(d, combined_text, merged_state) ==
    FillPerformance(FillModelUsage(FillMetrics(d), merged_state),
                    combined_text, merged_state)

\* `return d` after the blocks, or the exception that left them
Returned(f) == IF f.exc # None THEN f.exc ELSE f.obj

\* lines 584-598, 601-619: the dict literal; its values are evaluated in order
WrappedWith(summary, usage, perf) ==
    IF IsRaised(usage) THEN usage
    ELSE IF IsRaised(perf) THEN perf
    ELSE Dict((Key_summary :> Str(summary))
              @@ (Key_inline_comments :> EmptyList)
              @@ (Key_overall_status :> Str(S_COMMENT))
              @@ (Key_metrics :> DefaultMetrics)
              @@ (Key_model_usage :> usage)
              @@ (Key_performance :> perf))

\* lines 584-598 and 601-619: the dict literal built around a summary
Wrapped(summary, combined_text, merged_state) ==
    WrappedWith(summary, extract_model_usage(merged_state),
                extract_performance_metrics(combined_text, merged_state))

\* lines 484-486: isinstance(structured, dict) and ("summary" in structured
\* or "overall_status" in structured)
IsReviewMapping(structured) ==
    IsDict(structured)
    /\ (Has(structured, Key_summary) \/ Has(structured, Key_overall_status))

\* lines 484-486: the state holds a mapping with a required field
StateMappingPath(merged_state) == IsReviewMapping(state_lookup(merged_state))

\* lines 546-598: the text is not empty
TextResult(combined_text, merged_state, parsed) ==
    IF parsed # None
    THEN Returned(FillMissing(BackfillFromText(parsed, combined_text),
                              combined_text, merged_state))
    ELSE Wrapped(combined_text, combined_text, merged_state)

\* lines 542-619: the text handling
CoerceText(combined_text, merged_state) ==
    IF combined_text # <<>>
    THEN TextResult(combined_text, merged_state, extract_json_from_text(combined_text))
    ELSE Wrapped(MSG_not_extracted, combined_text, merged_state)

\* lines 512-540: the state holds a string; r is json.loads of it
StateStringResult(combined_text, merged_state, structured, r) ==
    IF r.ok /\ IsDict(r.v)
    THEN Returned(FillMissing(BackfillSummary(r.v, combined_text),
                              combined_text, merged_state))
    ELSE CoerceText(IF r.ok THEN combined_text
                    ELSE Strip(combined_text \o <<"\n">> \o structured),
                    merged_state)

\* coerce_review_output: the dict it returns, or the exception it raises
coerce_review_output(combined_text, merged_state) ==
    LET structured == state_lookup(merged_state)
    IN IF IsReviewMapping(structured)
       THEN Returned(FillMissing(BackfillSummary(structured, combined_text),
                                 combined_text, merged_state))
       ELSE IF IsStr(structured) /\ Strip(structured.s) # <<>>
       THEN StateStringResult(combined_text, merged_state, structured.s,
                              json_loads(structured.s))
       ELSE CoerceText(combined_text, merged_state)

\* merged_state after the call: on the state-mapping path `structured` is the
\* object held by the state, and lines 489-505 write into it
StateAfterCoerce(combined_text, merged_state) ==
    IF StateMappingPath(merged_state)
    THEN LET key == IF Truthy(Get(merged_state, Key_code_review_output))
                    THEN Key_code_review_output ELSE Key_formatted_output
         IN Put(merged_state, key,
                FillMissing(BackfillSummary(state_lookup(merged_state), combined_text),
                            combined_text, merged_state).obj)
    ELSE merged_state
-----------------------------------------------------------------------------
\* stream_extractor.py: the event normalizer

\* _get_attr (lines 117-122): getattr(obj, name), None when it raises
get_attr(obj, name) ==
    IF obj.k = "obj" /\ name \in DOMAIN obj.d THEN obj.d[name] ELSE None

RECURSIVE Flatten(_)
Flatten(seqs) == IF seqs = <<>> THEN <<>> ELSE Head(seqs) \o Flatten(Tail(seqs))

\* the loop `for part in parts: if isinstance(part, dict): text = part.get("text");
\* if isinstance(text, str) and text: out.append(text)`  (lines 147-151, 161-165, 175-179)
TextsOfDictParts(parts) ==
    LET kept == SelectSeq(parts.l, LAMBDA part :
                    IsDict(part) /\ IsStr(Get(part, Key_text)) /\ Get(part, Key_text).s # <<>>)
    IN [i \in DOMAIN kept |-> Get(kept[i], Key_text).s]

\* content.get("parts") of a dict content, when it is a list (lines 144-146, 157-159, 172-174)
PartsOfDictContent(content) ==
    IF IsDict(content) /\ IsList(Get(content, Key_parts))
    THEN TextsOfDictParts(Get(content, Key_parts))
    ELSE <<>>

\* lines 137-153: the candidates shape
TextsOfCandidates(candidates) ==
    Flatten([i \in DOMAIN candidates.l |->
                IF IsDict(candidates.l[i])
                THEN PartsOfDictContent(Get(candidates.l[i], Key_content))
                ELSE <<>>])

\* lines 134-192: a dict-shaped chunk
TextPartsOfDict(d) ==
    LET candidates == Get(d, Key_candidates)
        from_candidates == IF IsList(candidates) THEN TextsOfCandidates(candidates) ELSE <<>>
        content == Get(d, Key_content)
        out_parts == PartsOfDictContent(content)
        from_list == IF IsList(content)
                     THEN Flatten([i \in DOMAIN content.l |->
                                     PartsOfDictContent(content.l[i])])
                     ELSE <<>>
        text == Get(d, Key_text)
    IN IF from_candidates # <<>> THEN from_candidates
       ELSE IF out_parts # <<>> THEN out_parts
       ELSE IF from_list # <<>> THEN from_list
       ELSE IF IsStr(text) /\ text.s # <<>> THEN <<text.s>>
       ELSE IF IsStr(content) /\ content.s # <<>> THEN <<content.s>>
       ELSE <<>>

\* what `for part in parts` yields for the object path (line 200): the elements
\* of a list, the characters of a str, the keys of a dict
Elements(parts) ==
    IF IsList(parts) THEN parts.l
    ELSE IF IsStr(parts) THEN [i \in DOMAIN parts.s |-> Str(<<parts.s[i]>>)]
    ELSE <<>>

\* lines 199-203: text attributes of the parts of an object content
TextsOfObjectParts(parts) ==
    LET kept == SelectSeq(Elements(parts), LAMBDA part :
                    IsStr(get_attr(part, Key_text)) /\ get_attr(part, Key_text).s # <<>>)
    IN [i \in DOMAIN kept |-> get_attr(kept[i], Key_text).s]

\* lines 195-211: an attribute-bearing chunk
TextPartsOfObject(chunk) ==
    LET content == get_attr(chunk, Key_content)
        parts == get_attr(content, Key_parts)
        out == IF content # None /\ Truthy(parts) THEN TextsOfObjectParts(parts) ELSE <<>>
        text == get_attr(chunk, Key_text)
    IN IF out # <<>> THEN out
       ELSE IF IsStr(text) /\ text.s # <<>> THEN <<text.s>>
       ELSE <<>>

\* extract_text_parts raises TypeError at line 200 when `parts` of an object
\* chunk is truthy and cannot be iterated
extract_text_parts_raises(chunk) ==
    /\ chunk.k \notin {"none", "str", "dict"}
    /\ LET content == get_attr(chunk, Key_content)
           parts == get_attr(content, Key_parts)
       IN content # None /\ Truthy(parts) /\ ~Iterable(parts)

\* extract_text_parts (lines 125-211)
extract_text_parts(chunk) ==
    IF chunk = None THEN <<>>
    ELSE IF IsStr(chunk) THEN (IF chunk.s # <<>> THEN <<chunk.s>> ELSE <<>>)
    ELSE IF IsDict(chunk) THEN TextPartsOfDict(chunk)
    ELSE TextPartsOfObject(chunk)

\* extract_state_delta (lines 214-237)
extract_state_delta(chunk) ==
    IF chunk = None THEN EmptyDict
    ELSE IF IsDict(chunk)
         THEN LET actions == Get(chunk, Key_actions)
              IN IF IsDict(actions) /\ IsDict(Get(actions, Key_state_delta))
                 THEN Get(actions, Key_state_delta)
                 ELSE EmptyDict
    ELSE LET actions == get_attr(chunk, Key_actions)
             state_delta == get_attr(actions, Key_state_delta)
         IN IF actions = None THEN EmptyDict
            ELSE IF IsDict(state_delta) THEN state_delta
            ELSE EmptyDict

\* line 251 with " ".join in place of "\n".join
combined_text_of_space_joined(all_text_parts) ==
    Strip(Join(<<" ">>, SelectSeq(all_text_parts, LAMBDA t : t # <<>>)))

\* line 251: "\n".join([t for t in all_text_parts if t]).strip()
combined_text_of(all_text_parts) ==
    Strip(Join(<<"\n">>, SelectSeq(all_text_parts, LAMBDA t : t # <<>>)))

-----------------------------------------------------------------------------
\* Inputs of the aggregator: raw events of the three shapes

\* 'Hello'
Event_string ==
    Str(<<"H","e","l","l","o">>)

\* ''
Event_empty_string ==
    Str(<<>>)

\* null
Event_none ==
    None

\* {"content": {"parts": [{"text": 'A'}, {"text": ''}, {"text": ' B '}]}}
Event_dict_parts ==
    Dict((<<"c","o","n","t","e","n","t">> :> Dict((<<"p","a","r","t","s">> :> List(<<Dict((<<"t",
    "e","x","t">> :> Str(<<"A">>))), Dict((<<"t","e","x","t">> :> Str(<<>>))), Dict((<<"t",
    "e","x","t">> :> Str(<<" ","B"," ">>)))>>)))))

\* {"candidates": [{"content": {"parts": [{"text": 'C'}]}}]}
Event_dict_candidates ==
    Dict((<<"c","a","n","d","i","d","a","t","e","s">> :> List(<<Dict((<<"c","o","n","t","e",
    "n","t">> :> Dict((<<"p","a","r","t","s">> :> List(<<Dict((<<"t","e","x","t">> :> Str(<<"C">>)))>>)))))>>)))

\* {"text": 'T', "content": 'S'}
Event_dict_text_and_content ==
    Dict((<<"t","e","x","t">> :> Str(<<"T">>)) @@ (<<"c","o","n","t","e","n","t">> :> Str(<<"S">>)))

\* {"content": [{"parts": [{"text": 'L'}]}]}
Event_dict_content_list ==
    Dict((<<"c","o","n","t","e","n","t">> :> List(<<Dict((<<"p","a","r","t","s">> :> List(<<Dict((<<"t",
    "e","x","t">> :> Str(<<"L">>)))>>)))>>)))

\* {"actions": {"state_delta": {"k": 1}}}
Event_dict_delta ==
    Dict((<<"a","c","t","i","o","n","s">> :> Dict((<<"s","t","a","t","e","_","d","e","l",
    "t","a">> :> Dict((<<"k">> :> Num(1)))))))

\* {"actions": {"state_delta": {"k": 2, "j": 3}}, "content": {"parts": [{"text": 'D\n'}]}}
Event_dict_delta_and_text ==
    Dict((<<"a","c","t","i","o","n","s">> :> Dict((<<"s","t","a","t","e","_","d","e","l",
    "t","a">> :> Dict((<<"k">> :> Num(2)) @@ (<<"j">> :> Num(3)))))) @@ (<<"c","o","n","t",
    "e","n","t">> :> Dict((<<"p","a","r","t","s">> :> List(<<Dict((<<"t","e","x","t">> :> Str(<<"D",
    "\n">>)))>>)))))

\* Object(content=Object(parts=[Object(text='O'), Object(text='')]), actions=Object(state_delta={"k": 4}))
Event_object_parts ==
    Obj((<<"c","o","n","t","e","n","t">> :> Obj((<<"p","a","r","t","s">> :> List(<<Obj((<<"t",
    "e","x","t">> :> Str(<<"O">>))), Obj((<<"t","e","x","t">> :> Str(<<>>)))>>)))) @@ (<<"a",
    "c","t","i","o","n","s">> :> Obj((<<"s","t","a","t","e","_","d","e","l","t","a">> :> Dict((<<"k">> :> Num(4)))))))

\* Object(candidates=[Object(content=Object(parts=[Object(text='C')]))])
Event_object_candidates ==
    Obj((<<"c","a","n","d","i","d","a","t","e","s">> :> List(<<Obj((<<"c","o","n","t","e",
    "n","t">> :> Obj((<<"p","a","r","t","s">> :> List(<<Obj((<<"t","e","x","t">> :> Str(<<"C">>)))>>)))))>>)))

\* Object(text=' W\n')
Event_object_text ==
    Obj((<<"t","e","x","t">> :> Str(<<" ","W","\n">>)))

\* Object(content=Object(parts=5))
Event_object_bad_parts ==
    Obj((<<"c","o","n","t","e","n","t">> :> Obj((<<"p","a","r","t","s">> :> Num(5)))))

\* 7
Event_number ==
    Num(7)

EventLibrary ==
    {Event_string,
     Event_empty_string,
     Event_none,
     Event_dict_parts,
     Event_dict_candidates,
     Event_dict_text_and_content,
     Event_dict_content_list,
     Event_dict_delta,
     Event_dict_delta_and_text,
     Event_object_parts,
     Event_object_candidates,
     Event_object_text,
     Event_object_bad_parts,
     Event_number}

-----------------------------------------------------------------------------
\* Inputs of the reconciler: combined texts and merged states

\* ```json fenced block around a body
FencedJson(body) == FENCE_json \o <<"\n">> \o body \o <<"\n">> \o FENCE

\* '{"summary":"Nice.","overall_status":"COMMENT","metrics":{"files_reviewed":2}}'
Text_spec_example == <<"{","\"","s","u","m","m","a","r","y","\"",":","\"","N","i","c","e",
    ".","\"",",","\"","o","v","e","r","a","l","l","_","s","t","a","t","u","s","\"",":","\"",
    "C","O","M","M","E","N","T","\"",",","\"","m","e","t","r","i","c","s","\"",":","{","\"",
    "f","i","l","e","s","_","r","e","v","i","e","w","e","d","\"",":","2","}","}">>

\* '{"summary":"N"}'
Text_summary_only == <<"{","\"","s","u","m","m","a","r","y","\"",":","\"","N","\"","}">>

\* '{"overall_status":"APPROVED"}'
Text_status_only == <<"{","\"","o","v","e","r","a","l","l","_","s","t","a","t","u","s","\"",
    ":","\"","A","P","P","R","O","V","E","D","\"","}">>

\* '{"summary":"N","overall_status":"LGTM"}'
Text_unknown_status == <<"{","\"","s","u","m","m","a","r","y","\"",":","\"","N","\"",",",
    "\"","o","v","e","r","a","l","l","_","s","t","a","t","u","s","\"",":","\"","L","G","T",
    "M","\"","}">>

\* '{"summary":"}","overall_status":"COMMENT","metrics":{"summary":"evil"}}'
Text_brace_in_string == <<"{","\"","s","u","m","m","a","r","y","\"",":","\"","}","\"",",",
    "\"","o","v","e","r","a","l","l","_","s","t","a","t","u","s","\"",":","\"","C","O","M",
    "M","E","N","T","\"",",","\"","m","e","t","r","i","c","s","\"",":","{","\"","s","u","m",
    "m","a","r","y","\"",":","\"","e","v","i","l","\"","}","}">>

\* '{"summary":"","overall_status":"COMMENT"}'
Text_empty_summary == <<"{","\"","s","u","m","m","a","r","y","\"",":","\"","\"",",","\"",
    "o","v","e","r","a","l","l","_","s","t","a","t","u","s","\"",":","\"","C","O","M","M",
    "E","N","T","\"","}">>

\* ''
Text_empty == <<>>

\* 'Looks good to me.'
Text_prose == <<"L","o","o","k","s"," ","g","o","o","d"," ","t","o"," ","m","e",".">>

\* 'The change is small and safe. {"overall_status":"APPROVED"}'
Text_prose_then_object == <<"T","h","e"," ","c","h","a","n","g","e"," ","i","s"," ","s","m",
    "a","l","l"," ","a","n","d"," ","s","a","f","e","."," ","{","\"","o","v","e","r","a",
    "l","l","_","s","t","a","t","u","s","\"",":","\"","A","P","P","R","O","V","E","D","\"",
    "}">>

\* '{"summary":"a","overall_status":"COMMENT","metrics":{}} {"summary":"b"}'
Text_two_objects == <<"{","\"","s","u","m","m","a","r","y","\"",":","\"","a","\"",",","\"",
    "o","v","e","r","a","l","l","_","s","t","a","t","u","s","\"",":","\"","C","O","M","M",
    "E","N","T","\"",",","\"","m","e","t","r","i","c","s","\"",":","{","}","}"," ","{","\"",
    "s","u","m","m","a","r","y","\"",":","\"","b","\"","}">>

\* '}{"summary":"N"}'
Text_stray_close == <<"}","{","\"","s","u","m","m","a","r","y","\"",":","\"","N","\"","}">>

\* '{ {"summary":"N"}'
Text_stray_open == <<"{"," ","{","\"","s","u","m","m","a","r","y","\"",":","\"","N","\"",
    "}">>

\* '{"note":"x"}'
Text_no_signal == <<"{","\"","n","o","t","e","\"",":","\"","x","\"","}">>

\* '{"summary":"N"'
Text_unbalanced == <<"{","\"","s","u","m","m","a","r","y","\"",":","\"","N","\"">>

\* 'Fine. {"overall_status":"APPROVED"}'
Text_short_prose_then_object == <<"F","i","n","e","."," ","{","\"","o","v","e","r","a","l","l","_","s","t","a","t","u",
    "s","\"",":","\"","A","P","P","R","O","V","E","D","\"","}">>

\* 'The change is small and safe. {"overall_status":"APPROVED","metrics":{}}'
Text_prose_then_nested_object == <<"T","h","e"," ","c","h","a","n","g","e"," ","i","s"," ","s","m","a","l","l"," ","a",
    "n","d"," ","s","a","f","e","."," ","{","\"","o","v","e","r","a","l","l","_","s",
    "t","a","t","u","s","\"",":","\"","A","P","P","R","O","V","E","D","\"",",","\"","m",
    "e","t","r","i","c","s","\"",":","{","}","}">>

\* texts that are one JSON object
BareObjects ==
    {Text_spec_example,
     Text_summary_only,
     Text_status_only,
     Text_unknown_status,
     Text_brace_in_string,
     Text_empty_summary}

TextLibrary ==
    BareObjects \cup {FencedJson(body) : body \in BareObjects}
    \cup {Text_empty,
          Text_prose,
          Text_prose_then_object,
          Text_short_prose_then_object,
          Text_prose_then_nested_object,
          Text_two_objects,
          Text_stray_close,
          Text_stray_open,
          Text_no_signal,
          Text_unbalanced}

\* {}
State_empty ==
    EmptyDict

\* {"code_review_output": {"summary": "LGTM", "overall_status": "APPROVED"}}
State_review ==
    Dict((<<"c","o","d","e","_","r","e","v","i","e","w","_","o","u","t","p","u","t">> :> Dict((<<"s",
    "u","m","m","a","r","y">> :> Str(<<"L","G","T","M">>)) @@ (<<"o","v","e","r","a","l",
    "l","_","s","t","a","t","u","s">> :> Str(<<"A","P","P","R","O","V","E","D">>)))))

\* {"code_review_output": {"summary": "", "overall_status": "APPROVED"}}
State_review_empty_summary ==
    Dict((<<"c","o","d","e","_","r","e","v","i","e","w","_","o","u","t","p","u","t">> :> Dict((<<"s",
    "u","m","m","a","r","y">> :> Str(<<>>)) @@ (<<"o","v","e","r","a","l","l","_","s","t",
    "a","t","u","s">> :> Str(<<"A","P","P","R","O","V","E","D">>)))))

\* {"code_review_output": {"overall_status": "NEEDS_CHANGES"}}
State_review_status_only ==
    Dict((<<"c","o","d","e","_","r","e","v","i","e","w","_","o","u","t","p","u","t">> :> Dict((<<"o",
    "v","e","r","a","l","l","_","s","t","a","t","u","s">> :> Str(<<"N","E","E","D","S","_",
    "C","H","A","N","G","E","S">>)))))

\* {"code_review_output": {"summary": "LGTM", "overall_status": "APPROVED"}, "formatted_output": {"summary": "F", "overall_status": "COMMENT"}}
State_both_keys ==
    Dict((<<"c","o","d","e","_","r","e","v","i","e","w","_","o","u","t","p","u","t">> :> Dict((<<"s",
    "u","m","m","a","r","y">> :> Str(<<"L","G","T","M">>)) @@ (<<"o","v","e","r","a","l",
    "l","_","s","t","a","t","u","s">> :> Str(<<"A","P","P","R","O","V","E","D">>)))) @@ (<<"f",
    "o","r","m","a","t","t","e","d","_","o","u","t","p","u","t">> :> Dict((<<"s","u","m",
    "m","a","r","y">> :> Str(<<"F">>)) @@ (<<"o","v","e","r","a","l","l","_","s","t","a",
    "t","u","s">> :> Str(<<"C","O","M","M","E","N","T">>)))))

\* {"code_review_output": {}, "formatted_output": {"summary": "F"}}
State_formatted_only ==
    Dict((<<"c","o","d","e","_","r","e","v","i","e","w","_","o","u","t","p","u","t">> :> EmptyDict) @@ (<<"f",
    "o","r","m","a","t","t","e","d","_","o","u","t","p","u","t">> :> Dict((<<"s","u","m",
    "m","a","r","y">> :> Str(<<"F">>)))))

\* {"code_review_output": {"note": "x"}}
State_no_required_field ==
    Dict((<<"c","o","d","e","_","r","e","v","i","e","w","_","o","u","t","p","u","t">> :> Dict((<<"n",
    "o","t","e">> :> Str(<<"x">>)))))

\* {"code_review_output": "{\"a\":1}"}
State_json_string ==
    Dict((<<"c","o","d","e","_","r","e","v","i","e","w","_","o","u","t","p","u","t">> :> Str(<<"{",
    "\"","a","\"",":","1","}">>)))

\* {"code_review_output": "[1]"}
State_list_string ==
    Dict((<<"c","o","d","e","_","r","e","v","i","e","w","_","o","u","t","p","u","t">> :> Str(<<"[",
    "1","]">>)))

\* {"formatted_output": "not json"}
State_prose_string ==
    Dict((<<"f","o","r","m","a","t","t","e","d","_","o","u","t","p","u","t">> :> Str(<<"n",
    "o","t"," ","j","s","o","n">>)))

\* {"model_fallbacks": [{"agent": "PythonCodeAnalyzer", "primary": "gemini-2.5-pro", "fallback": "publishers/meta/models/llama-4"}], "python_analysis": "x", "performance_metrics": {"review_duration_seconds": 3, "chunks_received": 2}}
State_fallbacks ==
    Dict((<<"m","o","d","e","l","_","f","a","l","l","b","a","c","k","s">> :> List(<<Dict((<<"a",
    "g","e","n","t">> :> Str(<<"P","y","t","h","o","n","C","o","d","e","A","n","a","l","y",
    "z","e","r">>)) @@ (<<"p","r","i","m","a","r","y">> :> Str(<<"g","e","m","i","n","i",
    "-","2",".","5","-","p","r","o">>)) @@ (<<"f","a","l","l","b","a","c","k">> :> Str(<<"p",
    "u","b","l","i","s","h","e","r","s","/","m","e","t","a","/","m","o","d","e","l","s","/",
    "l","l","a","m","a","-","4">>)))>>)) @@ (<<"p","y","t","h","o","n","_","a","n","a","l",
    "y","s","i","s">> :> Str(<<"x">>)) @@ (<<"p","e","r","f","o","r","m","a","n","c","e",
    "_","m","e","t","r","i","c","s">> :> Dict((<<"r","e","v","i","e","w","_","d","u","r",
    "a","t","i","o","n","_","s","e","c","o","n","d","s">> :> Num(3)) @@ (<<"c","h","u","n",
    "k","s","_","r","e","c","e","i","v","e","d">> :> Num(2)))))

\* {"performance_metrics": "fast"}
State_bad_performance ==
    Dict((<<"p","e","r","f","o","r","m","a","n","c","e","_","m","e","t","r","i","c","s">> :> Str(<<"f",
    "a","s","t">>)))

\* {"code_review_output": {"note": "x"}, "formatted_output": {"summary": "F", "overall_status": "COMMENT"}}
State_unusable_review_and_formatted ==
    Dict((Key_code_review_output :> Dict(<<"n","o","t","e">> :> Str(<<"x">>)))
         @@ (Key_formatted_output :>
               Dict((Key_summary :> Str(<<"F">>)) @@ (Key_overall_status :> Str(S_COMMENT)))))

StateLibrary ==
    {State_empty,
     State_unusable_review_and_formatted,
     State_review,
     State_review_empty_summary,
     State_review_status_only,
     State_both_keys,
     State_formatted_only,
     State_no_required_field,
     State_json_string,
     State_list_string,
     State_prose_string,
     State_fallbacks,
     State_bad_performance}

-----------------------------------------------------------------------------
\* extract_text_and_state (stream_extractor.py:240-252) over a list of chunks

MaxStream == 2

\* the call: all_text_parts = [], merged_state = {} (lines 244-245)
AggregateInit ==
    /\ a_pc = "loop"
    /\ a_chunks \in UNION {[1..n -> EventLibrary] : n \in 0..MaxStream}
    /\ a_i = 1
    /\ a_parts = <<>>
    /\ a_merged = EmptyDict
    /\ a_text = <<>>
    /\ a_raised = NoErr
    /\ RouterIdle /\ ConsumerIdle /\ ReconcileIdle /\ ObjectIdle

\* lines 247-249: one turn of `for chunk in chunks`
AggregateChunk ==
    /\ a_pc = "loop"
    /\ a_i <= Len(a_chunks)
    /\ LET chunk == a_chunks[a_i]
       IN IF extract_text_parts_raises(chunk)
          THEN /\ a_pc' = "raised"
               /\ a_raised' = MkErr(T_TypeError, <<>>, NoChain)
               /\ UNCHANGED <<a_i, a_parts, a_merged>>
          ELSE /\ a_parts' = a_parts \o extract_text_parts(chunk)
               /\ a_merged' = Update(a_merged, extract_state_delta(chunk))
               /\ a_i' = a_i + 1
               /\ UNCHANGED <<a_pc, a_raised>>
    /\ UNCHANGED <<a_chunks, a_text>>
    /\ UNCHANGED notAggregateVars

\* lines 251-252: return combined_text, merged_state
AggregateReturn ==
    /\ a_pc = "loop"
    /\ a_i > Len(a_chunks)
    /\ a_text' = combined_text_of(a_parts)
    /\ a_pc' = "done"
    /\ UNCHANGED <<a_chunks, a_i, a_parts, a_merged, a_raised>>
    /\ UNCHANGED notAggregateVars

AggregateNext ==
    \/ AggregateChunk
    \/ AggregateReturn

SpecAggregate == AggregateInit /\ [][AggregateNext]_vars

\* The text fragments of the events, in event order and fragment order
FragmentsOf(chunks) == Flatten([i \in DOMAIN chunks |-> extract_text_parts(chunks[i])])

\* The fragments with a newline between neighbours
NewlineSeparated(fragments) ==
    Flatten([i \in DOMAIN fragments |->
                IF i = 1 THEN fragments[i] ELSE <<"\n">> \o fragments[i]])

\* s without its leading and trailing whitespace
Trimmed(s) ==
    IF \A i \in DOMAIN s : s[i] \in WhiteSpace THEN <<>>
    ELSE LET lo == CHOOSE i \in DOMAIN s :
                       s[i] \notin WhiteSpace /\ \A j \in 1..(i - 1) : s[j] \in WhiteSpace
             hi == CHOOSE i \in DOMAIN s :
                       s[i] \notin WhiteSpace /\ \A j \in (i + 1)..Len(s) : s[j] \in WhiteSpace
         IN SubSeq(s, lo, hi)

\* C10: for any event sequence, the combined text that extract_text_and_state
\* returns is the non-empty text fragments of the events, in event order and
\* fragment order, with a newline between neighbours, trimmed - whatever the
\* shape (string, mapping, object) of each event.
C10_CombinedTextIsJoinedFragments ==
    a_pc = "done" =>
        a_text = Trimmed(NewlineSeparated(
                     SelectSeq(FragmentsOf(a_chunks), LAMBDA t : t # <<>>)))

\* A mapping event with three parts (one empty, one padded) followed by an
\* object event with a padded text were joined and trimmed.
C10_Witness ==
    /\ a_pc = "done"
    /\ a_chunks = <<Event_dict_parts, Event_object_text>>
    /\ a_text = <<"A", "\n", " ", "B", " ", "\n", " ", "W">>

\* The state deltas of the events, in event order
DeltasOf(chunks) == [i \in DOMAIN chunks |-> extract_state_delta(chunks[i])]

\* The last position of `deltas` whose delta contains key
LastPositionOf(deltas, key) ==
    CHOOSE j \in DOMAIN deltas :
        /\ Has(deltas[j], key)
        /\ \A m \in (j + 1)..Len(deltas) : ~Has(deltas[m], key)

\* C11: for any event sequence, the merged state that extract_text_and_state
\* returns holds exactly the keys of the events' state deltas, each key with
\* the value of the last delta (in arrival order) that contains it; a key of
\* one delta only keeps that delta's value.
C11_LastWriteWins ==
    a_pc = "done" =>
        /\ IsDict(a_merged)
        /\ DOMAIN a_merged.d =
              UNION {DOMAIN DeltasOf(a_chunks)[i].d : i \in DOMAIN a_chunks}
        /\ \A key \in DOMAIN a_merged.d :
              a_merged.d[key] =
                  DeltasOf(a_chunks)[LastPositionOf(DeltasOf(a_chunks), key)].d[key]

\* A mapping event with the delta {k: 2, j: 3} was followed by an object event
\* with the delta {k: 4}: k holds the later value, j the only one it was given.
C11_Witness ==
    /\ a_pc = "done"
    /\ a_chunks = <<Event_dict_delta_and_text, Event_object_parts>>
    /\ a_merged = Dict((<<"k">> :> Num(4)) @@ (<<"j">> :> Num(3)))

-----------------------------------------------------------------------------
\* coerce_review_output called on a combined text and a merged state

ReconcileInit ==
    /\ q_pc = "ready"
    /\ q_text \in TextLibrary
    /\ q_input_state \in StateLibrary
    /\ q_state = q_input_state
    /\ q_result = None
    /\ q_raised = NoErr
    /\ RouterIdle /\ ConsumerIdle /\ AggregateIdle /\ ObjectIdle

\* the caller receives the dict, or the exception
CoerceEnds(result) ==
    IF IsRaised(result)
    THEN /\ q_pc' = "raised"
         /\ q_raised' = MkErr(result.s, <<>>, NoChain)
         /\ UNCHANGED q_result
    ELSE /\ q_pc' = "returned"
         /\ q_result' = result
         /\ UNCHANGED q_raised

\* stream_extractor.py:469-619: the call returns a dict or raises; on the
\* state-mapping path it has written into the object held by merged_state
Coerce ==
    /\ q_pc = "ready"
    /\ CoerceEnds(coerce_review_output(q_text, q_state))
    /\ q_state' = StateAfterCoerce(q_text, q_state)
    /\ UNCHANGED <<q_text, q_input_state>>
    /\ UNCHANGED notReconcileVars

ReconcileNext == Coerce

SpecReconcile == ReconcileInit /\ [][ReconcileNext]_vars

CoerceEnded == q_pc \in {"returned", "raised"}

\* C5: for any combined text (empty, not JSON, unbalanced braces, fenced or
\* not) coerce_review_output does not raise, and the result it returns
\* contains summary, overall_status and metrics.
C5_NeverRaisesAlwaysThreeFields ==
    (CoerceEnded /\ q_input_state = State_empty) =>
        /\ q_pc = "returned"
        /\ Has(q_result, Key_summary)
        /\ Has(q_result, Key_overall_status)
        /\ Has(q_result, Key_metrics)

\* C6: every result returned by coerce_review_output, on every path, contains
\* the six wire fields summary, inline_comments, overall_status, metrics,
\* model_usage and performance, and its overall_status is one of APPROVED,
\* NEEDS_CHANGES, COMMENT.
C6_CompleteCanonicalResult ==
    q_pc = "returned" =>
        /\ \A key \in {Key_summary, Key_inline_comments, Key_overall_status,
                       Key_metrics, Key_model_usage, Key_performance} :
              Has(q_result, key)
        /\ Get(q_result, Key_overall_status)
              \in {Str(S_APPROVED), Str(S_NEEDS_CHANGES), Str(S_COMMENT)}

\* merged_state["code_review_output"] is a mapping with summary or overall_status
StateHoldsReview ==
    LET review == Get(q_input_state, Key_code_review_output)
    IN IsDict(review) /\ (Has(review, Key_summary) \/ Has(review, Key_overall_status))

\* C7 (as stated): whenever merged_state["code_review_output"] is a mapping
\* containing summary or overall_status, the result carries that object's
\* summary and overall_status, for any combined text.
C7_StateObjectWins ==
    (CoerceEnded /\ StateHoldsReview) =>
        LET review == Get(q_input_state, Key_code_review_output)
        IN /\ q_pc = "returned"
           /\ Get(q_result, Key_summary) = Get(review, Key_summary)
           /\ Get(q_result, Key_overall_status) = Get(review, Key_overall_status)

\* C7 (amended): whenever merged_state["code_review_output"] is a mapping
\* containing summary or overall_status, the result carries that object's
\* overall_status, and its summary when that is non-empty; a missing or empty
\* summary is replaced by the combined text when the combined text is not
\* empty. No value comes from a JSON object embedded in the text.
C7_StateObjectWinsWithBackfill ==
    (CoerceEnded /\ StateHoldsReview) =>
        LET review == Get(q_input_state, Key_code_review_output)
        IN /\ q_pc = "returned"
           /\ Get(q_result, Key_overall_status) = Get(review, Key_overall_status)
           /\ Get(q_result, Key_summary) =
                 IF Truthy(Get(review, Key_summary)) \/ q_text = <<>>
                 THEN Get(review, Key_summary)
                 ELSE Str(q_text)

\* The state held a review under both output keys and the text was a different
\* valid review object: the result is the one of code_review_output.
C7_Witness ==
    /\ q_pc = "returned"
    /\ q_input_state = State_both_keys
    /\ q_text = Text_spec_example
    /\ Get(q_result, Key_summary) = Str(<<"L", "G", "T", "M">>)
    /\ Get(q_result, Key_overall_status) = Str(S_APPROVED)

\* C8: when the combined text is exactly one JSON object that contains summary
\* and overall_status and the merged state is empty, the result carries that
\* object's summary, overall_status and metrics unchanged.
C8_TextObjectUnchanged ==
    (/\ CoerceEnded
     /\ q_input_state = State_empty
     /\ q_text \in BareObjects
     /\ Has(json_loads(q_text).v, Key_summary)
     /\ Has(json_loads(q_text).v, Key_overall_status)) =>
        LET object == json_loads(q_text).v
        IN /\ q_pc = "returned"
           /\ Get(q_result, Key_summary) = Get(object, Key_summary)
           /\ Get(q_result, Key_overall_status) = Get(object, Key_overall_status)
           /\ Has(object, Key_metrics) =>
                 Get(q_result, Key_metrics) = Get(object, Key_metrics)

\* C9: for a JSON object with a signal field and an empty merged state, the
\* result for the object inside a ```json fenced block is the result for the
\* bare object text.
C9_FencedSameAsBare ==
    \A body \in BareObjects :
        (/\ CoerceEnded
         /\ q_input_state = State_empty
         /\ q_text = FencedJson(body)
         /\ HasSignalField(json_loads(body).v)) =>
            /\ q_pc = "returned"
            /\ q_result = coerce_review_output(body, State_empty)

\* json_candidates of the brace scan over the text given to coerce_review_output
CandidatesOf(text) == BraceScan(text, 1, 0, 0, <<>>)

\* the fenced first try of _extract_json_from_text gave nothing
NoFencedObject(text) ==
    strip_json_fence(text) = text \/ ParseSignalObject(strip_json_fence(text)) = None

\* the candidate with the most fields, the latest one among those
MostFieldsThenLatest(json_candidates) ==
    json_candidates[CHOOSE j \in DOMAIN json_candidates :
                        \A m \in DOMAIN json_candidates :
                            \/ PyLen(json_candidates[m].parsed) < PyLen(json_candidates[j].parsed)
                            \/ /\ PyLen(json_candidates[m].parsed) = PyLen(json_candidates[j].parsed)
                               /\ json_candidates[m].pos <= json_candidates[j].pos].parsed

\* C22: when the brace scan over the text finds several candidates,
\* _extract_json_from_text returns the candidate with the most fields, and
\* the later one only among candidates with the same number of fields.
C22_MostFieldsThenLatest ==
    (/\ CoerceEnded /\ q_input_state = State_empty
     /\ NoFencedObject(q_text)
     /\ Len(CandidatesOf(q_text)) >= 2)
    => extract_json_from_text(q_text) = MostFieldsThenLatest(CandidatesOf(q_text))

OpenBraces(text) == {i \in DOMAIN text : text[i] = "{"}
CloseBraces(text) == {i \in DOMAIN text : text[i] = "}"}

\* braces opened minus braces closed in text[a..j]
DepthIn(text, a, j) ==
    Cardinality(OpenBraces(text) \cap (a..j)) - Cardinality(CloseBraces(text) \cap (a..j))

\* text[a..b] is a brace-balanced {...} span, counting braces as the scan does
BalancedSpan(text, a, b) ==
    /\ a \in OpenBraces(text) /\ b \in CloseBraces(text) /\ a < b
    /\ DepthIn(text, a, b) = 0
    /\ \A j \in a..(b - 1) : DepthIn(text, a, j) > 0

\* no other balanced span encloses text[a..b]
TopLevelSpan(text, a, b) ==
    /\ BalancedSpan(text, a, b)
    /\ ~\E a2 \in OpenBraces(text), b2 \in CloseBraces(text) :
           a2 < a /\ b < b2 /\ BalancedSpan(text, a2, b2)

\* C23: every top-level brace-balanced span of the text that parses to a
\* mapping with a signal field is among the candidates of the scan, whatever
\* stands before or after it (unmatched braces included).
C23_EveryBalancedSpanIsCandidate ==
    (CoerceEnded /\ q_input_state = State_empty)
    => \A a \in OpenBraces(q_text), b \in CloseBraces(q_text) :
          (TopLevelSpan(q_text, a, b) /\ ParseSignalObject(SubSeq(q_text, a, b)) # None)
          => \E k \in DOMAIN CandidatesOf(q_text) :
                CandidatesOf(q_text)[k] =
                    [pos |-> b - 1, parsed |-> ParseSignalObject(SubSeq(q_text, a, b))]

\* a mapping with a required field
Qualifies(v) == IsDict(v) /\ (Has(v, Key_summary) \/ Has(v, Key_overall_status))

\* the state mapping the result is to come from: code_review_output when it
\* qualifies, otherwise formatted_output when that qualifies
QualifyingOutput(merged_state) ==
    IF Qualifies(Get(merged_state, Key_code_review_output))
    THEN Get(merged_state, Key_code_review_output)
    ELSE IF Qualifies(Get(merged_state, Key_formatted_output))
    THEN Get(merged_state, Key_formatted_output)
    ELSE None

\* C24: whenever code_review_output or formatted_output in the merged state
\* is a mapping with summary or overall_status, the result comes from state:
\* from code_review_output when it qualifies, from formatted_output whenever
\* code_review_output is absent or does not qualify. The result carries that
\* mapping's overall_status and its summary (the combined text when the
\* summary is missing or empty).
C24_EitherKnownKeyIsUsed ==
    (CoerceEnded /\ QualifyingOutput(q_input_state) # None)
    => /\ q_pc = "returned"
       /\ Get(q_result, Key_overall_status)
             = Get(QualifyingOutput(q_input_state), Key_overall_status)
       /\ Get(q_result, Key_summary) =
             IF Truthy(Get(QualifyingOutput(q_input_state), Key_summary)) \/ q_text = <<>>
             THEN Get(QualifyingOutput(q_input_state), Key_summary)
             ELSE Str(q_text)

\* the known output key whose value the lookup took
LookupKey(merged_state) ==
    IF Truthy(Get(merged_state, Key_code_review_output))
    THEN Key_code_review_output ELSE Key_formatted_output

\* the lookup found a string that is not blank
StateHoldsString(merged_state) ==
    IsStr(state_lookup(merged_state)) /\ Strip(state_lookup(merged_state).s) # <<>>

\* what step (2) is to give for a state string whose json.loads is r: a parsed
\* mapping stands in for the string and goes through step (1), anything else
\* is appended to the text and the text is reconciled
StringHandledAsStated(combined_text, merged_state, string, r) ==
    IF r.ok /\ IsDict(r.v)
    THEN coerce_review_output(combined_text, Put(merged_state, LookupKey(merged_state), r.v))
    ELSE CoerceText(Strip(combined_text \o <<"\n">> \o string), merged_state)

\* C25: when the known output key holds a string, a string that parses to a
\* JSON mapping is handled like a state mapping of step (1), required-field
\* check included; any other string (not JSON, or JSON that is not a mapping)
\* is folded into the combined text, which is then reconciled.
C25_StateStringParsedOrFolded ==
    (CoerceEnded /\ StateHoldsString(q_input_state))
    => /\ q_pc = "returned"
       /\ q_result = StringHandledAsStated(q_text, q_input_state,
                                           state_lookup(q_input_state).s,
                                           json_loads(state_lookup(q_input_state).s))

\* C26: extract_text_parts and extract_state_delta do not raise for any raw
\* event, whatever the types of its nested fields: extract_text_and_state
\* never ends with an exception; every event it has gone through added its
\* fragments (none for an unrecognised shape) and its delta.
C26_NormalizerNeverRaises ==
    /\ a_pc # "raised"
    /\ a_raised = NoErr

\* the attribute-bearing event that carries the fields of a mapping event:
\* every mapping becomes an object with the keys as attributes, except the
\* state delta, which is a mapping in both shapes
RECURSIVE AsObject(_)
AsObject(v) ==
    IF IsDict(v)
    THEN Obj([key \in DOMAIN v.d |->
                IF key = Key_state_delta THEN v.d[key] ELSE AsObject(v.d[key])])
    ELSE IF IsList(v) THEN List([i \in DOMAIN v.l |-> AsObject(v.l[i])])
    ELSE v

\* C27: a mapping event and the attribute-bearing event with the same fields
\* normalize alike: for every mapping event the aggregator has gone through,
\* its object twin gives the same text fragments and the same state delta
\* (and does not raise).
C27_ShapeIndependent ==
    \A i \in 1..(a_i - 1) :
        IsDict(a_chunks[i])
        => /\ ~extract_text_parts_raises(AsObject(a_chunks[i]))
           /\ extract_text_parts(AsObject(a_chunks[i])) = extract_text_parts(a_chunks[i])
           /\ extract_state_delta(AsObject(a_chunks[i])) = extract_state_delta(a_chunks[i])

\* the candidate _extract_json_from_text returns: the last one of the scan
ExtractedCandidate(text) ==
    CandidatesOf(text)[CHOOSE j \in DOMAIN CandidatesOf(text) :
                          \A m \in DOMAIN CandidatesOf(text) :
                              SortKeyLeq(CandidatesOf(text)[m], CandidatesOf(text)[j])]

\* the position of the opening brace of the extracted object
ExtractedStart(text) ==
    CHOOSE a \in OpenBraces(text) : BalancedSpan(text, a, ExtractedCandidate(text).pos + 1)

\* the text before the extracted object, stripped
LeadingProse(text) == Strip(SubSeq(text, 1, ExtractedStart(text) - 1))

\* C28: when the object extracted from the combined text has no summary, or
\* an empty one, and prose stands before the object, the summary of the
\* result is that prose (the text before the object's opening brace) and
\* holds no part of the object.
C28_SummaryFromLeadingProse ==
    (/\ CoerceEnded /\ q_input_state = State_empty
     /\ NoFencedObject(q_text)
     /\ CandidatesOf(q_text) # <<>>
     /\ ~Truthy(Get(ExtractedCandidate(q_text).parsed, Key_summary))
     /\ LeadingProse(q_text) # <<>>)
    => /\ q_pc = "returned"
       /\ Get(q_result, Key_summary) = Str(LeadingProse(q_text))

====
